---- MODULE Spec2Model ----
(***************************************************************************)
(* Model of the sports-tracker: the categorization engine and the          *)
(* versioned big-game settings store (shared.js, latest revision in the    *)
(* file, and the settings page's category toggles), the watch-party        *)
(* overlay, the by-team page's refresh cycle and must-watch list (app.js), *)
(* the big-games pipelines of app.js and calendar.js, the scoreboard       *)
(* batches, the API response cache and the watch-party token codec.        *)
(***************************************************************************)
EXTENDS Integers, Sequences, FiniteSets, TLC

(***************************************************************************)
(* JavaScript values                                                       *)
(***************************************************************************)

\* null / undefined (any falsy team category)
NULL == "null"

SeqToSet(s) == {s[i] : i \in 1..Len(s)}

\* Array.prototype.includes
Includes(s, x) == \E i \in 1..Len(s) : s[i] = x

\* Array.prototype.filter(c => c # x)
RECURSIVE FilterOut(_, _)
FilterOut(s, x) ==
    IF s = <<>> THEN <<>>
    ELSE IF Head(s) = x THEN FilterOut(Tail(s), x)
         ELSE <<Head(s)>> \o FilterOut(Tail(s), x)

(***************************************************************************)
(* Team ids: the upstream API returns numbers or strings.                  *)
(***************************************************************************)

\* largest numeric team id enumerated
MaxTeamNum == 2
\* longest id list enumerated
MaxIdListLen == 2

NumId(n) == [t |-> "num", v |-> n, s |-> ""]
StrId(x) == [t |-> "str", v |-> 0, s |-> x]

DigitChars == <<"0", "1", "2", "3", "4", "5", "6", "7", "8", "9">>

\* decimal rendering of a non-negative integer
RECURSIVE NumToString(_)
NumToString(n) ==
    IF n < 10 THEN DigitChars[n + 1]
    ELSE NumToString(n \div 10) \o DigitChars[(n % 10) + 1]

\* String(id)
String(id) == IF id.t = "num" THEN NumToString(id.v) ELSE id.s

TeamIds == {NumId(n) : n \in 1..MaxTeamNum} \cup {StrId("1"), StrId("01"), StrId("2")}

RECURSIVE SeqsUpTo(_, _)
SeqsUpTo(S, n) ==
    IF n = 0 THEN {<<>>}
    ELSE LET shorter == SeqsUpTo(S, n - 1)
         IN shorter \cup {Append(q, x) : q \in {r \in shorter : Len(r) = n - 1}, x \in S}

IdLists == SeqsUpTo(TeamIds, MaxIdListLen)

\* list.map(String)
MapString(list) == [i \in 1..Len(list) |-> String(list[i])]

(***************************************************************************)
(* Team levels and game categories                                         *)
(***************************************************************************)

TEAM_LEVELS ==
    [TOP_TIER |-> "top-tier",
     FAVORITE |-> "favorite",
     THINKIN_SUPEY |-> "thinkin-supey",
     YA_NEVER_KNOW |-> "ya-never-know"]

GAME_CATEGORIES ==
    [ROB_LOWE |-> "rob-lowe",
     PLAYOFF_PREVIEW |-> "playoff-preview",
     MEASURING_STICK |-> "measuring-stick",
     BEAT_EM_OFF |-> "beat-em-off",
     HOUSE_DIVIDED |-> "house-divided"]

\* a classifier that tests top-tier membership first
categorizeTeam_topFirst(teamId, topTierTeamIds, favoriteTeamIds) ==
    LET teamIdStr == String(teamId)
        isTopTier == Includes(MapString(topTierTeamIds), teamIdStr)
        isFavorite == Includes(MapString(favoriteTeamIds), teamIdStr)
    IN IF isTopTier THEN TEAM_LEVELS.TOP_TIER
       ELSE IF isFavorite THEN TEAM_LEVELS.YA_NEVER_KNOW
       ELSE NULL

categorizeTeam(teamId, topTierTeamIds, favoriteTeamIds) ==
    LET teamIdStr == String(teamId)
        isTopTier == Includes(MapString(topTierTeamIds), teamIdStr)
        isFavorite == Includes(MapString(favoriteTeamIds), teamIdStr)
    IN IF isFavorite /\ isTopTier THEN TEAM_LEVELS.THINKIN_SUPEY
       ELSE IF isFavorite /\ ~isTopTier THEN TEAM_LEVELS.YA_NEVER_KNOW
       ELSE IF isTopTier THEN TEAM_LEVELS.TOP_TIER
       ELSE NULL

\* the first revision's rules: top tier includes thinkin-supey, Rob Lowe is
\* tested before the favorite rules and there is no Playoff Preview
categorizeGame_robLoweFirst(homeTeamCategory, awayTeamCategory) ==
    LET isHomeThinkinSupey == homeTeamCategory = TEAM_LEVELS.THINKIN_SUPEY
        isAwayThinkinSupey == awayTeamCategory = TEAM_LEVELS.THINKIN_SUPEY
        isHomeYaNeverKnow == homeTeamCategory = TEAM_LEVELS.YA_NEVER_KNOW
        isAwayYaNeverKnow == awayTeamCategory = TEAM_LEVELS.YA_NEVER_KNOW
        isHomeFavorite == isHomeThinkinSupey \/ isHomeYaNeverKnow
        isAwayFavorite == isAwayThinkinSupey \/ isAwayYaNeverKnow
        isHomeTopTier == homeTeamCategory = TEAM_LEVELS.TOP_TIER \/ isHomeThinkinSupey
        isAwayTopTier == awayTeamCategory = TEAM_LEVELS.TOP_TIER \/ isAwayThinkinSupey
        isHomeRegular == homeTeamCategory = NULL
        isAwayRegular == awayTeamCategory = NULL
    IN IF isHomeFavorite /\ isAwayFavorite THEN GAME_CATEGORIES.HOUSE_DIVIDED
       ELSE IF isHomeTopTier /\ isAwayTopTier THEN GAME_CATEGORIES.ROB_LOWE
       ELSE IF isHomeYaNeverKnow /\ isAwayTopTier THEN GAME_CATEGORIES.MEASURING_STICK
       ELSE IF isHomeFavorite /\ isAwayRegular THEN GAME_CATEGORIES.BEAT_EM_OFF
       ELSE IF isAwayFavorite /\ isHomeRegular THEN GAME_CATEGORIES.BEAT_EM_OFF
       ELSE NULL

\* the current rules with Measuring Stick and Beat Em Off tested for the
\* home side only
categorizeGame_homeOnly(homeTeamCategory, awayTeamCategory) ==
    LET isHomeThinkinSupey == homeTeamCategory = TEAM_LEVELS.THINKIN_SUPEY
        isAwayThinkinSupey == awayTeamCategory = TEAM_LEVELS.THINKIN_SUPEY
        isHomeYaNeverKnow == homeTeamCategory = TEAM_LEVELS.YA_NEVER_KNOW
        isAwayYaNeverKnow == awayTeamCategory = TEAM_LEVELS.YA_NEVER_KNOW
        isHomeFavorite == isHomeThinkinSupey \/ isHomeYaNeverKnow
        isAwayFavorite == isAwayThinkinSupey \/ isAwayYaNeverKnow
        isHomeTopTierOnly == homeTeamCategory = TEAM_LEVELS.TOP_TIER
        isAwayTopTierOnly == awayTeamCategory = TEAM_LEVELS.TOP_TIER
        isAwayRegular == awayTeamCategory = NULL
    IN IF isHomeFavorite /\ isAwayFavorite THEN GAME_CATEGORIES.HOUSE_DIVIDED
       ELSE IF (isHomeTopTierOnly /\ isAwayThinkinSupey) \/ (isAwayTopTierOnly /\ isHomeThinkinSupey)
            THEN GAME_CATEGORIES.PLAYOFF_PREVIEW
       ELSE IF isHomeTopTierOnly /\ isAwayTopTierOnly THEN GAME_CATEGORIES.ROB_LOWE
       ELSE IF isHomeYaNeverKnow /\ isAwayTopTierOnly THEN GAME_CATEGORIES.MEASURING_STICK
       ELSE IF isHomeFavorite /\ isAwayRegular THEN GAME_CATEGORIES.BEAT_EM_OFF
       ELSE NULL

categorizeGame(homeTeamCategory, awayTeamCategory) ==
    LET isHomeThinkinSupey == homeTeamCategory = TEAM_LEVELS.THINKIN_SUPEY
        isAwayThinkinSupey == awayTeamCategory = TEAM_LEVELS.THINKIN_SUPEY
        isHomeYaNeverKnow == homeTeamCategory = TEAM_LEVELS.YA_NEVER_KNOW
        isAwayYaNeverKnow == awayTeamCategory = TEAM_LEVELS.YA_NEVER_KNOW
        isHomeFavorite == isHomeThinkinSupey \/ isHomeYaNeverKnow
        isAwayFavorite == isAwayThinkinSupey \/ isAwayYaNeverKnow
        isHomeTopTierOnly == homeTeamCategory = TEAM_LEVELS.TOP_TIER
        isAwayTopTierOnly == awayTeamCategory = TEAM_LEVELS.TOP_TIER
        isHomeRegular == homeTeamCategory = NULL
        isAwayRegular == awayTeamCategory = NULL
    IN IF isHomeFavorite /\ isAwayFavorite THEN GAME_CATEGORIES.HOUSE_DIVIDED
       ELSE IF (isHomeTopTierOnly /\ isAwayThinkinSupey) \/ (isAwayTopTierOnly /\ isHomeThinkinSupey)
            THEN GAME_CATEGORIES.PLAYOFF_PREVIEW
       ELSE IF isHomeTopTierOnly /\ isAwayTopTierOnly THEN GAME_CATEGORIES.ROB_LOWE
       ELSE IF (isHomeYaNeverKnow /\ isAwayTopTierOnly) \/ (isAwayYaNeverKnow /\ isHomeTopTierOnly)
            THEN GAME_CATEGORIES.MEASURING_STICK
       ELSE IF isHomeFavorite /\ isAwayRegular THEN GAME_CATEGORIES.BEAT_EM_OFF
       ELSE IF isAwayFavorite /\ isHomeRegular THEN GAME_CATEGORIES.BEAT_EM_OFF
       ELSE NULL

\* the values categorizeTeam can return
TeamTiers == {NULL, TEAM_LEVELS.TOP_TIER, TEAM_LEVELS.THINKIN_SUPEY, TEAM_LEVELS.YA_NEVER_KNOW}

\* every value a caller can pass as a team category
TeamCategoryArgs == TeamTiers \cup {TEAM_LEVELS.FAVORITE}

(***************************************************************************)
(* Big-game settings: constants and documents                              *)
(***************************************************************************)

SETTINGS_SCHEMA_VERSION == 3

\* Object.keys(COMPETITIONS)
COMPETITIONS == <<"premier-league", "champions-league", "fa-cup", "league-cup", "nba", "nhl">>

CompetitionKeys == SeqToSet(COMPETITIONS)

ALL_CATEGORIES == <<"rob-lowe", "playoff-preview", "measuring-stick", "beat-em-off", "house-divided">>

CL_CATEGORIES == <<"cl-favorite", "cl-top-english", "cl-other-english", "cl-english-derby">>

\* an object with no keys
EmptyMap == [c \in {} |-> <<>>]

\* A parsed settings object.  hasEC / hasPC: the enabledCategories /
\* perCompetition property is present (truthy); schemaVersion 0: the property
\* is absent.  perCompetition is a map whose domain is the keys present.
SettingsDoc(hasEC, ec, hasPC, pc, sv) ==
    [hasEC |-> hasEC, enabledCategories |-> ec,
     hasPC |-> hasPC, perCompetition |-> pc, schemaVersion |-> sv]

\* variant: every competition gets the standard categories
DefaultCategories_standardOnly(competition) == ALL_CATEGORIES

\* the competition's full default set
DefaultCategories(competition) ==
    IF competition = "champions-league" THEN CL_CATEGORIES ELSE ALL_CATEGORIES

DEFAULT_BIG_GAME_SETTINGS ==
    SettingsDoc(FALSE, <<>>, TRUE,
                [c \in CompetitionKeys |-> DefaultCategories(c)],
                SETTINGS_SCHEMA_VERSION)

\* _bigGameSettingsCache = null
NullDoc == [isNull |-> TRUE, doc |-> SettingsDoc(FALSE, <<>>, FALSE, EmptyMap, 0)]
Cached(doc) == [isNull |-> FALSE, doc |-> doc]

\* localStorage.getItem: null, a string JSON.parse rejects, or the JSON text
\* of a document
ItemAbsent == [kind |-> "absent", doc |-> NullDoc.doc]
ItemCorrupt == [kind |-> "corrupt", doc |-> NullDoc.doc]

\* JSON.stringify of a settings object: properties that are absent are not
\* written, so the text is determined by the present properties only
JSONstringify(doc) ==
    [kind |-> "json",
     doc |-> SettingsDoc(doc.hasEC, IF doc.hasEC THEN doc.enabledCategories ELSE <<>>,
                         doc.hasPC, IF doc.hasPC THEN doc.perCompetition ELSE EmptyMap,
                         doc.schemaVersion)]

\* JSON.parse of a stored text (the caller has excluded absent and corrupt)
JSONparse(item) == item.doc

\* sessionStorage holds no watch party
NoWatchParty == [present |-> FALSE, hasBigGames |-> FALSE, bigGames |-> EmptyMap]

\* getWatchPartySession() && watchParty.bigGames
WatchPartyBigGamesActive(session) == session.present /\ session.hasBigGames

(***************************************************************************)
(* getBigGameSettings / saveBigGameSettings                                *)
(***************************************************************************)

\* The effect of saveBigGameSettings(settings) on (cache, item, writes)
saveBigGameSettings(settings, writes) ==
    [cache |-> Cached(settings), item |-> JSONstringify(settings), writes |-> writes + 1]

\* a legacy migration that gives every competition its default set instead
\* of the old list
MigrateLegacy_defaults(parsed) ==
    SettingsDoc(FALSE, <<>>, TRUE,
                [c \in CompetitionKeys |-> DefaultCategories(c)],
                SETTINGS_SCHEMA_VERSION)

\* lines 813-827: legacy root-level list applied to every competition
MigrateLegacy(parsed) ==
    SettingsDoc(FALSE, <<>>, TRUE,
                [c \in CompetitionKeys |-> parsed.enabledCategories],
                SETTINGS_SCHEMA_VERSION)

\* lines 834-843: add every competition that is missing
BackfillCompetitions(pc) ==
    [c \in (DOMAIN pc) \cup CompetitionKeys |->
        IF c \in DOMAIN pc THEN pc[c] ELSE DefaultCategories(c)]

\* the version-2 step with its includes() test inverted
AddPlayoffPreview_inverted(pc) ==
    [c \in DOMAIN pc |->
        IF c \in CompetitionKeys /\ Includes(pc[c], "playoff-preview")
        THEN Append(pc[c], "playoff-preview")
        ELSE pc[c]]

\* lines 846-854: version 2 added 'playoff-preview' to all competitions
AddPlayoffPreview(pc) ==
    [c \in DOMAIN pc |->
        IF c \in CompetitionKeys /\ ~Includes(pc[c], "playoff-preview")
        THEN Append(pc[c], "playoff-preview")
        ELSE pc[c]]

\* the version-3 step looping over every competition
ResetChampionsLeague_all(pc) ==
    [c \in (DOMAIN pc) \cup {"champions-league"} |-> CL_CATEGORIES]

\* lines 856-861: version 3 resets champions-league to the CL scheme
ResetChampionsLeague(pc) ==
    [c \in (DOMAIN pc) \cup {"champions-league"} |->
        IF c = "champions-league" THEN CL_CATEGORIES ELSE pc[c]]

\* the versioned branch saving on every load
MigrateVersioned_alwaysSave(parsed) ==
    LET savedVersion == IF parsed.schemaVersion = 0 THEN 1 ELSE parsed.schemaVersion
        pc1 == BackfillCompetitions(parsed.perCompetition)
        pc2 == IF savedVersion < 2 THEN AddPlayoffPreview(pc1) ELSE pc1
        pc3 == IF savedVersion < 3 THEN ResetChampionsLeague(pc2) ELSE pc2
    IN [doc |-> [parsed EXCEPT !.perCompetition = pc3,
                               !.schemaVersion = SETTINGS_SCHEMA_VERSION],
        save |-> TRUE]

\* lines 830-871: the versioned branch; returns the document and whether it
\* is saved
MigrateVersioned(parsed) ==
    LET savedVersion == IF parsed.schemaVersion = 0 THEN 1 ELSE parsed.schemaVersion
        missing == \E c \in CompetitionKeys : c \notin DOMAIN parsed.perCompetition
        pc1 == BackfillCompetitions(parsed.perCompetition)
        pc2 == IF savedVersion < 2 THEN AddPlayoffPreview(pc1) ELSE pc1
        pc3 == IF savedVersion < 3 THEN ResetChampionsLeague(pc2) ELSE pc2
        needsSave == missing \/ savedVersion < 2 \/ savedVersion < 3
        doSave == needsSave \/ savedVersion < SETTINGS_SCHEMA_VERSION
    IN [doc |-> [parsed EXCEPT !.perCompetition = pc3,
                               !.schemaVersion = IF doSave THEN SETTINGS_SCHEMA_VERSION
                                                 ELSE parsed.schemaVersion],
        save |-> doSave]

\* getBigGameSettings(): the value returned and the cache, the stored item
\* and the number of localStorage writes after the call
getBigGameSettings(session, cache, item) ==
    IF WatchPartyBigGamesActive(session)
    THEN [ret |-> SettingsDoc(FALSE, <<>>, TRUE, session.bigGames, SETTINGS_SCHEMA_VERSION),
          cache |-> cache, item |-> item, writes |-> 0]
    ELSE IF ~cache.isNull
    THEN [ret |-> cache.doc, cache |-> cache, item |-> item, writes |-> 0]
    ELSE IF item.kind = "json" /\ JSONparse(item).hasEC /\ ~JSONparse(item).hasPC
    THEN LET migratedSettings == MigrateLegacy(JSONparse(item))
             saved == saveBigGameSettings(migratedSettings, 0)
         IN [ret |-> migratedSettings, cache |-> Cached(migratedSettings),
             item |-> saved.item, writes |-> saved.writes]
    ELSE IF item.kind = "json" /\ JSONparse(item).hasPC
    THEN LET m == MigrateVersioned(JSONparse(item))
             saved == saveBigGameSettings(m.doc, 0)
         IN [ret |-> m.doc, cache |-> Cached(m.doc),
             item |-> IF m.save THEN saved.item ELSE item,
             writes |-> IF m.save THEN saved.writes ELSE 0]
    ELSE \* absent, JSON.parse threw, or neither property present
         [ret |-> DEFAULT_BIG_GAME_SETTINGS, cache |-> Cached(DEFAULT_BIG_GAME_SETTINGS),
          item |-> item, writes |-> 0]

\* a handler that saves an object holding the perCompetition map only
ToggleCategoryIn_noVersion(currentSettings, competition, category, checked) ==
    LET pc0 == currentSettings.perCompetition
        pc1 == IF competition \in DOMAIN pc0 THEN pc0
               ELSE [c \in (DOMAIN pc0) \cup {competition} |->
                        IF c = competition THEN <<>> ELSE pc0[c]]
        list == pc1[competition]
        newList == IF checked
                   THEN (IF Includes(list, category) THEN list ELSE Append(list, category))
                   ELSE FilterOut(list, category)
    IN SettingsDoc(FALSE, <<>>, TRUE, [pc1 EXCEPT ![competition] = newList], 0)

\* The checkbox change handler of the settings page (lines 619-642), applied
\* to the settings object it got from getBigGameSettings
ToggleCategoryIn(currentSettings, competition, category, checked) ==
    LET pc0 == currentSettings.perCompetition
        pc1 == IF competition \in DOMAIN pc0 THEN pc0
               ELSE [c \in (DOMAIN pc0) \cup {competition} |->
                        IF c = competition THEN <<>> ELSE pc0[c]]
        list == pc1[competition]
        newList == IF checked
                   THEN (IF Includes(list, category) THEN list ELSE Append(list, category))
                   ELSE FilterOut(list, category)
    IN [currentSettings EXCEPT !.perCompetition = [pc1 EXCEPT ![competition] = newList]]

(***************************************************************************)
(* The big-games pipeline of the By Team page (app.js)                     *)
(***************************************************************************)

\* the undefined that Array.prototype.find returns when nothing matches
NoCompetitor == [homeAway |-> "undefined", id |-> StrId("")]

\* competitors.find(c => c.homeAway === side)
FindHomeAway(competitors, side) ==
    IF \E i \in 1..Len(competitors) : competitors[i].homeAway = side
    THEN competitors[CHOOSE i \in 1..Len(competitors) :
                        /\ competitors[i].homeAway = side
                        /\ \A j \in 1..(i - 1) : competitors[j].homeAway # side]
    ELSE NoCompetitor

\* the sports the model's teams and favorites belong to
DEFAULT_TEAMS ==
    <<[id |-> StrId("368"), sport |-> "soccer"],
      [id |-> StrId("27"), sport |-> "football"],
      [id |-> StrId("20"), sport |-> "hockey"],
      [id |-> StrId("30"), sport |-> "baseball"]>>

\* an item of localStorage that holds a JSON array
ListAbsent == [kind |-> "absent", list |-> <<>>]
ListItem(list) == [kind |-> "json", list |-> list]

\* getFavoriteTeams() of app.js after invalidateAppCache(): the stored list
\* when it is a non-empty array, the default teams otherwise
getFavoriteTeams(favoritesItem) ==
    IF favoritesItem.kind = "json" /\ Len(favoritesItem.list) > 0
    THEN favoritesItem.list
    ELSE DEFAULT_TEAMS

RECURSIVE IdsOfSport(_, _)
IdsOfSport(teams, sport) ==
    IF teams = <<>> THEN <<>>
    ELSE IF Head(teams).sport = sport
         THEN <<Head(teams).id>> \o IdsOfSport(Tail(teams), sport)
         ELSE IdsOfSport(Tail(teams), sport)

getFavoriteTeamIdsBySport(favoriteTeams, sport) == IdsOfSport(favoriteTeams, sport)

isFavoriteTeamId(favoriteTeams, teamId, sport) ==
    LET favoriteIds == getFavoriteTeamIdsBySport(favoriteTeams, sport)
    IN Includes(MapString(favoriteIds), String(teamId))

teamIdMatchesList(teamId, teamIdList) == Includes(teamIdList, teamId)

BigGamesCompetition(sport, league, requiresEnglishTeam) ==
    [sport |-> sport, league |-> league, requiresEnglishTeam |-> requiresEnglishTeam]

BIG_GAMES_CONFIG ==
    <<BigGamesCompetition("soccer", "premier-league", FALSE),
      BigGamesCompetition("soccer", "champions-league", TRUE),
      BigGamesCompetition("soccer", "fa-cup", FALSE),
      BigGamesCompetition("soccer", "league-cup", FALSE),
      BigGamesCompetition("basketball", "nba", FALSE),
      BigGamesCompetition("hockey", "nhl", FALSE)>>

\* perCompetition[competition] is missing or does not list the category
isCategoryEnabledForCompetition(settings, category, competition) ==
    IF competition \notin DOMAIN settings.perCompetition THEN FALSE
    ELSE Includes(settings.perCompetition[competition], category)

computeIsBigGameForCompetition(settings, gameCategory, competition) ==
    IF gameCategory = NULL \/ competition = NULL THEN FALSE
    ELSE isCategoryEnabledForCompetition(settings, gameCategory, competition)

\* topTierByLeague[config.league] || []
topTierByLeague(plData, nbaData, nhlData, league) ==
    IF league \in {"premier-league", "champions-league", "fa-cup", "league-cup"}
    THEN plData.qualifyingTeamIds
    ELSE IF league = "nba" THEN nbaData.topTierTeamIds
    ELSE IF league = "nhl" THEN nhlData.topTierTeamIds
    ELSE <<>>

\* lines 652-684: the event has two competitors, a home and an away side,
\* and passes the competition's threshold test
Qualifies(config, event, topTierTeamIds, allEnglishTeamIds) ==
    LET competitors == event.competitors
        homeTeam == FindHomeAway(competitors, "home")
        awayTeam == FindHomeAway(competitors, "away")
    IN /\ Len(competitors) = 2
       /\ homeTeam # NoCompetitor
       /\ awayTeam # NoCompetitor
       /\ IF config.requiresEnglishTeam
          THEN \/ teamIdMatchesList(homeTeam.id, allEnglishTeamIds)
               \/ teamIdMatchesList(awayTeam.id, allEnglishTeamIds)
          ELSE /\ teamIdMatchesList(homeTeam.id, topTierTeamIds)
               /\ teamIdMatchesList(awayTeam.id, topTierTeamIds)

\* lines 707-741: the game object built for an event that qualifies
BigGameOf(config, event, topTierTeamIds, favoriteTeams) ==
    LET homeTeamId == FindHomeAway(event.competitors, "home").id
        awayTeamId == FindHomeAway(event.competitors, "away").id
        favoriteTeamIds == getFavoriteTeamIdsBySport(favoriteTeams, config.sport)
        homeTeamCategory == categorizeTeam(homeTeamId, topTierTeamIds, favoriteTeamIds)
        awayTeamCategory == categorizeTeam(awayTeamId, topTierTeamIds, favoriteTeamIds)
    IN [id |-> event.id, date |-> event.date,
        sport |-> config.sport, league |-> config.league,
        involvesFavorite |-> \/ isFavoriteTeamId(favoriteTeams, homeTeamId, config.sport)
                             \/ isFavoriteTeamId(favoriteTeams, awayTeamId, config.sport),
        gameCategory |-> categorizeGame(homeTeamCategory, awayTeamCategory),
        homeTeamId |-> homeTeamId, awayTeamId |-> awayTeamId,
        homeTeamCategory |-> homeTeamCategory, awayTeamCategory |-> awayTeamCategory]

\* the loop body of lines 652-744 for one event: TRUE when a game is pushed
EventPasses(config, event, topTierTeamIds, allEnglishTeamIds, favoriteTeams, settings) ==
    /\ Qualifies(config, event, topTierTeamIds, allEnglishTeamIds)
    /\ ~event.completed
    /\ computeIsBigGameForCompetition(
           settings, BigGameOf(config, event, topTierTeamIds, favoriteTeams).gameCategory,
           config.league)

RECURSIVE CompetitionGamesOf(_, _, _, _, _, _)
CompetitionGamesOf(config, events, topTierTeamIds, allEnglishTeamIds, favoriteTeams, settings) ==
    IF events = <<>> THEN <<>>
    ELSE (IF EventPasses(config, Head(events), topTierTeamIds, allEnglishTeamIds,
                         favoriteTeams, settings)
          THEN <<BigGameOf(config, Head(events), topTierTeamIds, favoriteTeams)>>
          ELSE <<>>)
         \o CompetitionGamesOf(config, Tail(events), topTierTeamIds, allEnglishTeamIds,
                               favoriteTeams, settings)

\* the events of the date results of one competition, in date order
RECURSIVE EventsOf(_)
EventsOf(results) ==
    IF results = <<>> THEN <<>> ELSE Head(results).events \o EventsOf(Tail(results))

AnyError(results) == \E i \in 1..Len(results) : results[i].error

\* filter with the seen set: the first game of every id
RECURSIVE DedupeById(_, _)
DedupeById(games, seen) ==
    IF games = <<>> THEN <<>>
    ELSE IF Head(games).id \in seen THEN DedupeById(Tail(games), seen)
         ELSE <<Head(games)>> \o DedupeById(Tail(games), seen \cup {Head(games).id})

\* Array.prototype.sort((a, b) => a.date - b.date), which is stable
RECURSIVE InsertByDate(_, _)
InsertByDate(sorted, g) ==
    IF sorted = <<>> THEN <<g>>
    ELSE IF Head(sorted).date <= g.date THEN <<Head(sorted)>> \o InsertByDate(Tail(sorted), g)
         ELSE <<g>> \o sorted

RECURSIVE SortByDate(_)
SortByDate(games) ==
    IF games = <<>> THEN <<>>
    ELSE InsertByDate(SortByDate(SubSeq(games, 1, Len(games) - 1)), games[Len(games)])

RECURSIVE AllCompetitionGames(_, _, _, _, _, _, _)
AllCompetitionGames(k, plData, nbaData, nhlData, scoreboard, favoriteTeams, settings) ==
    IF k > Len(BIG_GAMES_CONFIG) THEN <<>>
    ELSE LET config == BIG_GAMES_CONFIG[k]
             topTierTeamIds == topTierByLeague(plData, nbaData, nhlData, config.league)
         IN CompetitionGamesOf(config, EventsOf(scoreboard[config.league]), topTierTeamIds,
                               plData.allEnglishTeamIds, favoriteTeams, settings)
            \o AllCompetitionGames(k + 1, plData, nbaData, nhlData, scoreboard,
                                   favoriteTeams, settings)

\* some event gets as far as line 719, where the settings are read
AnyEventCategorized(plData, nbaData, nhlData, scoreboard) ==
    \E k \in 1..Len(BIG_GAMES_CONFIG) :
        LET config == BIG_GAMES_CONFIG[k]
            events == EventsOf(scoreboard[config.league])
        IN \E i \in 1..Len(events) :
              /\ Qualifies(config, events[i],
                           topTierByLeague(plData, nbaData, nhlData, config.league),
                           plData.allEnglishTeamIds)
              /\ ~events[i].completed

\* fetchBigGames() with the standings results, the date results of every
\* competition, the result of getFavoriteTeams() and the resolved settings
fetchBigGames(plData, nbaData, nhlData, scoreboard, favoriteTeams, settings) ==
    [games |-> SortByDate(DedupeById(
                   AllCompetitionGames(1, plData, nbaData, nhlData, scoreboard,
                                       favoriteTeams, settings), {})),
     error |-> \/ plData.error \/ nbaData.error \/ nhlData.error
               \/ \E k \in 1..Len(BIG_GAMES_CONFIG) :
                     AnyError(scoreboard[BIG_GAMES_CONFIG[k].league])]

(***************************************************************************)
(* The big-games pipeline of the calendar page (calendar.js)               *)
(***************************************************************************)

\* getFavoriteTeamIds() of calendar.js: the ids of all favorites
getFavoriteTeamIds(favoriteTeams) ==
    [i \in 1..Len(favoriteTeams) |-> favoriteTeams[i].id]

\* isFavoriteTeamId(teamId) of calendar.js
calendarIsFavoriteTeamId(favoriteTeams, teamId) ==
    Includes(getFavoriteTeamIds(favoriteTeams), teamId)

\* lines 650-682 of calendar.js: two competitors and the threshold test; a
\* side that find() does not return has the id ''
CalendarQualifies(config, event, topTierTeamIds, allEnglishTeamIds) ==
    LET competitors == event.competitors
        homeTeamId == FindHomeAway(competitors, "home").id
        awayTeamId == FindHomeAway(competitors, "away").id
    IN /\ Len(competitors) = 2
       /\ IF config.requiresEnglishTeam
          THEN \/ teamIdMatchesList(homeTeamId, allEnglishTeamIds)
               \/ teamIdMatchesList(awayTeamId, allEnglishTeamIds)
          ELSE /\ teamIdMatchesList(homeTeamId, topTierTeamIds)
               /\ teamIdMatchesList(awayTeamId, topTierTeamIds)

CalendarInvolvesFavorite(event, favoriteTeams) ==
    \/ calendarIsFavoriteTeamId(favoriteTeams, FindHomeAway(event.competitors, "home").id)
    \/ calendarIsFavoriteTeamId(favoriteTeams, FindHomeAway(event.competitors, "away").id)

\* lines 697-723 of calendar.js: the game object
CalendarGameOf(config, event, topTierTeamIds, favoriteTeams) ==
    LET homeTeamId == FindHomeAway(event.competitors, "home").id
        awayTeamId == FindHomeAway(event.competitors, "away").id
        favoriteTeamIds == getFavoriteTeamIds(favoriteTeams)
        homeTeamCategory == categorizeTeam(homeTeamId, topTierTeamIds, favoriteTeamIds)
        awayTeamCategory == categorizeTeam(awayTeamId, topTierTeamIds, favoriteTeamIds)
    IN [id |-> event.id, date |-> event.date, league |-> config.league,
        gameCategory |-> categorizeGame(homeTeamCategory, awayTeamCategory),
        homeTeamId |-> homeTeamId, awayTeamId |-> awayTeamId,
        homeTeamCategory |-> homeTeamCategory, awayTeamCategory |-> awayTeamCategory]

CalendarEventPasses(config, event, topTierTeamIds, allEnglishTeamIds, favoriteTeams, settings) ==
    /\ CalendarQualifies(config, event, topTierTeamIds, allEnglishTeamIds)
    /\ ~CalendarInvolvesFavorite(event, favoriteTeams)
    /\ ~event.completed
    /\ computeIsBigGameForCompetition(
           settings, CalendarGameOf(config, event, topTierTeamIds, favoriteTeams).gameCategory,
           config.league)

RECURSIVE CalendarCompetitionGamesOf(_, _, _, _, _, _)
CalendarCompetitionGamesOf(config, events, topTierTeamIds, allEnglishTeamIds, favoriteTeams, settings) ==
    IF events = <<>> THEN <<>>
    ELSE (IF CalendarEventPasses(config, Head(events), topTierTeamIds, allEnglishTeamIds,
                                 favoriteTeams, settings)
          THEN <<CalendarGameOf(config, Head(events), topTierTeamIds, favoriteTeams)>>
          ELSE <<>>)
         \o CalendarCompetitionGamesOf(config, Tail(events), topTierTeamIds,
                                       allEnglishTeamIds, favoriteTeams, settings)

RECURSIVE CalendarAllGames(_, _, _, _, _, _, _)
CalendarAllGames(k, plData, nbaData, nhlData, scoreboard, favoriteTeams, settings) ==
    IF k > Len(BIG_GAMES_CONFIG) THEN <<>>
    ELSE LET config == BIG_GAMES_CONFIG[k]
             topTierTeamIds == topTierByLeague(plData, nbaData, nhlData, config.league)
         IN CalendarCompetitionGamesOf(config, EventsOf(scoreboard[config.league]),
                                       topTierTeamIds, plData.allEnglishTeamIds,
                                       favoriteTeams, settings)
            \o CalendarAllGames(k + 1, plData, nbaData, nhlData, scoreboard,
                                favoriteTeams, settings)

\* fetchBigGamesForCalendar()
fetchBigGamesForCalendar(plData, nbaData, nhlData, scoreboard, favoriteTeams, settings) ==
    [games |-> SortByDate(DedupeById(
                   CalendarAllGames(1, plData, nbaData, nhlData, scoreboard,
                                    favoriteTeams, settings), {})),
     error |-> \/ plData.error \/ nbaData.error \/ nhlData.error
               \/ \E k \in 1..Len(BIG_GAMES_CONFIG) :
                     AnyError(scoreboard[BIG_GAMES_CONFIG[k].league])]

(***************************************************************************)
(* State                                                                   *)
(***************************************************************************)

VARIABLES
    teamCall,               \* last categorizeTeam call: arguments and result
    gameCall,               \* last categorizeGame call: arguments and result
    localSettings,          \* localStorage[BIG_GAME_SETTINGS_KEY]
    _bigGameSettingsCache,  \* module-level cache of the parsed settings
    watchPartySession,      \* sessionStorage[WATCH_PARTY_SESSION_KEY]
    last,                   \* the last settings operation: what it saw, returned and wrote
    reload,                 \* a load, then an invalidation, then a second load
    toggles,                \* number of checkbox changes so far
    watchPartyMode,         \* app.js module variable: the active snapshot or null
    pageUrlWp,              \* what the wp parameter of the page's URL decodes to
    localMustWatch,         \* localStorage[MUST_WATCH_KEY]
    _mustWatchCache,        \* app.js module-level cache of the must-watch list
    localFavorites,         \* localStorage[FAVORITES_KEY]
    page,                   \* the By Team page: last step, what it rendered, history
    pipeline,               \* one run of the big-games pipelines: inputs and results
    batch,                  \* one batch of scoreboard fetches: outcomes and result
    responseCache,          \* localStorage entries under CACHE_KEY_PREFIX, the clock, the last call
    share,                  \* sessionStorage item, the page URL's wp parameter, the last call
    stored,                 \* the persisted documents one refresh cycle reads, and its outcome
    favStore,               \* settings page: localStorage[FAVORITE_TEAMS_KEY] and the last call
    matchup,                \* one big game and the matchup text the two views display
    fetcher,                \* cached fetch functions: cache entries, upstream state, last result
    cycles                  \* one page with overlapping refresh cycles and its storage

catVars == <<teamCall, gameCall>>
settingsVars == <<localSettings, _bigGameSettingsCache, watchPartySession, last, reload, toggles>>
appVars == <<watchPartyMode, pageUrlWp, localMustWatch, _mustWatchCache, localFavorites, page>>
lateVars == <<stored, favStore, matchup, fetcher, cycles>>
pureVars == <<pipeline, batch, responseCache, share, lateVars>>
restVars == <<appVars, pureVars>>
vars == <<teamCall, gameCall, localSettings, _bigGameSettingsCache, watchPartySession,
          last, reload, toggles, restVars>>

NoTeamCall ==
    [pc |-> "idle", teamId |-> NumId(0), topTierTeamIds |-> <<>>,
     favoriteTeamIds |-> <<>>, result |-> NULL]

NoGameCall ==
    [pc |-> "idle", homeTeamCategory |-> NULL, awayTeamCategory |-> NULL,
     result |-> NULL]

NoOp ==
    [op |-> "none", wp |-> FALSE, cacheHit |-> FALSE, before |-> ItemAbsent,
     ret |-> NullDoc.doc, writes |-> 0]

NoReload == [phase |-> "none", origin |-> ItemAbsent, first |-> NullDoc.doc]

\* no page of the By Team kind is open
NoPage ==
    [op |-> "none", disabled |-> FALSE, checkboxes |-> {}, autoMarked |-> {},
     active |-> FALSE, mustWatchAtActivation |-> ListAbsent]

NullList == [isNull |-> TRUE, list |-> <<>>]
CachedList(list) == [isNull |-> FALSE, list |-> list]

AppIdle ==
    /\ watchPartyMode = NoWatchParty
    /\ pageUrlWp = NoWatchParty
    /\ localMustWatch = ListAbsent
    /\ _mustWatchCache = NullList
    /\ localFavorites = ListAbsent
    /\ page = NoPage

NoPipeline == [pc |-> "idle"]

NoBatch == [pc |-> "idle"]

\* no entry under the key
NoEntry == [present |-> FALSE, timestamp |-> 0, data |-> NULL, ttl |-> 0]

NoResponseCache == [pc |-> "idle"]

NoShare == [pc |-> "idle"]

LateIdle ==
    /\ stored = [pc |-> "idle"]
    /\ favStore = [pc |-> "idle"]
    /\ matchup = [pc |-> "idle"]
    /\ fetcher = [pc |-> "idle"]
    /\ cycles = [pc |-> "idle"]

PureIdle ==
    /\ pipeline = NoPipeline
    /\ batch = NoBatch
    /\ responseCache = NoResponseCache
    /\ share = NoShare
    /\ LateIdle

RestIdle ==
    /\ AppIdle
    /\ PureIdle

SettingsIdle ==
    /\ localSettings = ItemAbsent
    /\ _bigGameSettingsCache = NullDoc
    /\ watchPartySession = NoWatchParty
    /\ last = NoOp
    /\ reload = NoReload
    /\ toggles = 0

\* the arguments of one call are drawn; the call itself is a step
CatInit ==
    /\ SettingsIdle
    /\ RestIdle
    /\ \/ /\ \E id \in TeamIds, top \in IdLists, fav \in IdLists :
               teamCall = [pc |-> "pending", teamId |-> id, topTierTeamIds |-> top,
                           favoriteTeamIds |-> fav, result |-> NULL]
          /\ gameCall = NoGameCall
       \/ /\ teamCall = NoTeamCall
          /\ \E h \in TeamCategoryArgs, a \in TeamCategoryArgs :
               gameCall = [pc |-> "pending", homeTeamCategory |-> h,
                           awayTeamCategory |-> a, result |-> NULL]

CallCategorizeTeam ==
    /\ teamCall.pc = "pending"
    /\ teamCall' = [teamCall EXCEPT
                      !.pc = "done",
                      !.result = categorizeTeam(teamCall.teamId, teamCall.topTierTeamIds,
                                                teamCall.favoriteTeamIds)]
    /\ UNCHANGED gameCall
    /\ UNCHANGED settingsVars
    /\ UNCHANGED restVars

CallCategorizeGame ==
    /\ gameCall.pc = "pending"
    /\ gameCall' = [gameCall EXCEPT
                      !.pc = "done",
                      !.result = categorizeGame(gameCall.homeTeamCategory,
                                                gameCall.awayTeamCategory)]
    /\ UNCHANGED teamCall
    /\ UNCHANGED settingsVars
    /\ UNCHANGED restVars

CatNext == CallCategorizeTeam \/ CallCategorizeGame

\* the categorization functions applied to every enumerated input
SpecCat == CatInit /\ [][CatNext]_vars

(***************************************************************************)
(* The settings store as a state machine                                   *)
(***************************************************************************)

\* checkbox changes per run
MaxToggles == 2

\* the first revision's ALL_CATEGORIES (no playoff-preview)
V1_CATEGORIES == <<"rob-lowe", "measuring-stick", "beat-em-off", "house-divided">>

\* category lists a stored document holds for premier-league
StoredListsPL == {<<>>, <<"rob-lowe">>, V1_CATEGORIES, ALL_CATEGORIES}
\* ... for the other generic competitions
StoredListsOther == {<<"house-divided">>, ALL_CATEGORIES}
\* ... for champions-league
StoredListsCL == {<<"rob-lowe">>, ALL_CATEGORIES, <<"cl-favorite">>, CL_CATEGORIES}
\* root-level lists of the legacy format
LegacyLists == {<<>>, <<"rob-lowe">>, V1_CATEGORIES}

\* which competitions a stored perCompetition map holds
StoredKeySets ==
    {{}, {"premier-league"}, {"champions-league"}, {"premier-league", "champions-league"},
     CompetitionKeys \ {"nhl"}, CompetitionKeys}

StoredMaps ==
    {[c \in ks |-> IF c = "premier-league" THEN pl
                   ELSE IF c = "champions-league" THEN cl ELSE ot] :
        ks \in StoredKeySets, pl \in StoredListsPL, ot \in StoredListsOther,
        cl \in StoredListsCL}

\* the schemaVersion of a stored document: absent (0) or written by a
\* revision up to the current one
StoredVersions == 0..SETTINGS_SCHEMA_VERSION

\* what localStorage can hold when a page starts
InitialItems ==
    {ItemAbsent, ItemCorrupt,
     JSONstringify(SettingsDoc(FALSE, <<>>, FALSE, EmptyMap, 0))}
    \cup {JSONstringify(SettingsDoc(TRUE, ec, FALSE, EmptyMap, 0)) : ec \in LegacyLists}
    \cup {JSONstringify(SettingsDoc(FALSE, <<>>, TRUE, pc, sv)) :
            pc \in StoredMaps, sv \in StoredVersions}

\* decoded ?wp= snapshots: the sharer's full map, a map holding one
\* competition, and a snapshot without bigGames
UrlWatchParties ==
    {[present |-> TRUE, hasBigGames |-> TRUE,
      bigGames |-> DEFAULT_BIG_GAME_SETTINGS.perCompetition],
     [present |-> TRUE, hasBigGames |-> TRUE,
      bigGames |-> [c \in {"premier-league"} |-> <<"rob-lowe">>]],
     [present |-> TRUE, hasBigGames |-> FALSE, bigGames |-> EmptyMap]}

\* checkboxes exercised
ToggleCompetitions == {"premier-league", "champions-league", "nhl"}
ToggleCategories == {"rob-lowe", "playoff-preview"}

Init ==
    /\ RestIdle
    /\ teamCall = NoTeamCall
    /\ gameCall = NoGameCall
    /\ localSettings \in InitialItems
    /\ _bigGameSettingsCache = NullDoc
    /\ watchPartySession = NoWatchParty
    /\ last = NoOp
    /\ reload = NoReload
    /\ toggles = 0

\* any caller of getBigGameSettings()
Load ==
    LET r == getBigGameSettings(watchPartySession, _bigGameSettingsCache, localSettings)
        wp == WatchPartyBigGamesActive(watchPartySession)
    IN /\ localSettings' = r.item
       /\ _bigGameSettingsCache' = r.cache
       /\ last' = [op |-> "load", wp |-> wp, cacheHit |-> ~wp /\ ~_bigGameSettingsCache.isNull,
                   before |-> localSettings, ret |-> r.ret, writes |-> r.writes]
       /\ reload' = IF wp THEN NoReload
                    ELSE IF reload.phase = "invalidated"
                         THEN [reload EXCEPT !.phase = "reloaded"]
                         ELSE [phase |-> "loaded", origin |-> localSettings, first |-> r.ret]
       /\ UNCHANGED <<watchPartySession, toggles, teamCall, gameCall, restVars>>

\* invalidateSettingsCache()
InvalidateSettingsCache ==
    /\ _bigGameSettingsCache' = NullDoc
    /\ last' = [NoOp EXCEPT !.op = "invalidate", !.before = localSettings]
    /\ reload' = IF reload.phase \in {"loaded", "reloaded"}
                 THEN [reload EXCEPT !.phase = "invalidated", !.first = last.ret]
                 ELSE reload
    /\ UNCHANGED <<localSettings, watchPartySession, toggles, teamCall, gameCall, restVars>>

\* a category checkbox of the settings page changes; the page wires the
\* handlers only when no watch party is active
ToggleCategory ==
    /\ ~watchPartySession.present
    /\ toggles < MaxToggles
    /\ \E competition \in ToggleCompetitions, category \in ToggleCategories,
          checked \in BOOLEAN :
         LET r == getBigGameSettings(watchPartySession, _bigGameSettingsCache, localSettings)
             currentSettings == ToggleCategoryIn(r.ret, competition, category, checked)
             saved == saveBigGameSettings(currentSettings, r.writes)
         IN /\ localSettings' = saved.item
            /\ _bigGameSettingsCache' = saved.cache
            /\ last' = [op |-> "toggle", wp |-> FALSE,
                        cacheHit |-> ~_bigGameSettingsCache.isNull,
                        before |-> localSettings, ret |-> currentSettings,
                        writes |-> saved.writes]
    /\ reload' = NoReload
    /\ toggles' = toggles + 1
    /\ UNCHANGED <<watchPartySession, teamCall, gameCall, restVars>>

\* getActiveWatchParty() with the session storage and the decoded URL token
getActiveWatchParty(session, urlWp) ==
    IF session.present THEN session ELSE urlWp

\* a page of the site is opened: module state starts over and init calls
\* getActiveWatchParty()
PageLoad ==
    \E urlWp \in UrlWatchParties \cup {NoWatchParty} :
        /\ watchPartySession' = getActiveWatchParty(watchPartySession, urlWp)
        /\ _bigGameSettingsCache' = NullDoc
        /\ last' = [NoOp EXCEPT !.op = "pageload", !.before = localSettings]
        /\ reload' = NoReload
        /\ UNCHANGED <<localSettings, toggles, teamCall, gameCall, restVars>>

\* the banner's "View your own" link: clearWatchPartySession() and navigate
ClearWatchParty ==
    /\ watchPartySession.present
    /\ watchPartySession' = NoWatchParty
    /\ _bigGameSettingsCache' = NullDoc
    /\ last' = [NoOp EXCEPT !.op = "clear", !.before = localSettings]
    /\ reload' = NoReload
    /\ UNCHANGED <<localSettings, toggles, teamCall, gameCall, restVars>>

Next ==
    \/ Load
    \/ InvalidateSettingsCache
    \/ ToggleCategory
    \/ PageLoad
    \/ ClearWatchParty

Spec == Init /\ [][Next]_vars

\* The same change handler (lines 619-642 call getBigGameSettings, then
\* saveBigGameSettings) running while a watch-party session with a bigGames
\* map is stored: a settings page wired before the party link was opened in
\* the tab and shown again from the history, or any other caller of
\* saveBigGameSettings. Neither function looks at the mode before writing.
ToggleCategoryInWatchParty ==
    /\ WatchPartyBigGamesActive(watchPartySession)
    /\ toggles < MaxToggles
    /\ \E competition \in ToggleCompetitions, category \in ToggleCategories,
          checked \in BOOLEAN :
         LET r == getBigGameSettings(watchPartySession, _bigGameSettingsCache, localSettings)
             currentSettings == ToggleCategoryIn(r.ret, competition, category, checked)
             saved == saveBigGameSettings(currentSettings, r.writes)
         IN /\ localSettings' = saved.item
            /\ _bigGameSettingsCache' = saved.cache
            /\ last' = [op |-> "wpsave", wp |-> TRUE, cacheHit |-> FALSE,
                        before |-> localSettings, ret |-> currentSettings,
                        writes |-> saved.writes]
    /\ reload' = NoReload
    /\ toggles' = toggles + 1
    /\ UNCHANGED <<watchPartySession, teamCall, gameCall, restVars>>

NextOverlay ==
    \/ Load
    \/ InvalidateSettingsCache
    \/ ToggleCategory
    \/ PageLoad
    \/ ClearWatchParty
    \/ ToggleCategoryInWatchParty

SpecOverlay == Init /\ [][NextOverlay]_vars

(***************************************************************************)
(* The By Team page (app.js): refresh cycle and must-watch list            *)
(***************************************************************************)

\* a decoded snapshot; has*: the property is present and truthy
WatchParty(hasTeams, teams, hasBigGames, bigGames, hasMustWatch, mustWatch) ==
    [present |-> TRUE, hasBigGames |-> hasBigGames, bigGames |-> bigGames,
     hasTeams |-> hasTeams, teams |-> teams,
     hasMustWatch |-> hasMustWatch, mustWatch |-> mustWatch]

\* getMustWatchGames(): the array returned, the cache afterwards and whether
\* the array is the overlay's own (the caller's push then changes the overlay)
getMustWatchGames(mode, cache, item) ==
    IF mode.present /\ mode.hasMustWatch
    THEN [ret |-> mode.mustWatch, cache |-> cache, overlay |-> TRUE]
    ELSE IF ~cache.isNull
    THEN [ret |-> cache.list, cache |-> cache, overlay |-> FALSE]
    ELSE LET list == IF item.kind = "json" THEN item.list ELSE <<>>
         IN [ret |-> list, cache |-> CachedList(list), overlay |-> FALSE]

\* variant: localStorage is written, the cache is left as it was
saveMustWatchGames_storeOnly(st, gameIds, overlay) ==
    [st EXCEPT !.mode = IF overlay THEN [st.mode EXCEPT !.mustWatch = gameIds] ELSE st.mode,
               !.item = ListItem(gameIds)]

\* saveMustWatchGames(gameIds) on the page state; gameIds is the array that
\* getMustWatchGames returned, changed in place by the caller
saveMustWatchGames(st, gameIds, overlay) ==
    [st EXCEPT !.mode = IF overlay THEN [st.mode EXCEPT !.mustWatch = gameIds] ELSE st.mode,
               !.cache = CachedList(gameIds),
               !.item = ListItem(gameIds)]

\* Array.prototype.splice(indexOf(x), 1)
RECURSIVE RemoveFirst(_, _)
RemoveFirst(s, x) ==
    IF s = <<>> THEN <<>>
    ELSE IF Head(s) = x THEN Tail(s)
         ELSE <<Head(s)>> \o RemoveFirst(Tail(s), x)

\* Array.prototype.filter(id => ids.includes(id))
RECURSIVE KeepIncluded(_, _)
KeepIncluded(s, ids) ==
    IF s = <<>> THEN <<>>
    ELSE IF Includes(ids, Head(s)) THEN <<Head(s)>> \o KeepIncluded(Tail(s), ids)
         ELSE KeepIncluded(Tail(s), ids)

\* toggleMustWatch(gameId) up to its call of loadSchedules()
toggleMustWatch(st, gameId) ==
    LET g == getMustWatchGames(st.mode, st.cache, st.item)
        mustWatch == IF Includes(g.ret, gameId) THEN RemoveFirst(g.ret, gameId)
                     ELSE Append(g.ret, gameId)
    IN saveMustWatchGames(st, mustWatch, g.overlay)

\* variant: ids are dropped only when the cycle loaded some game
cleanupOldMustWatch_unlessEmpty(st, currentGameIds) ==
    IF st.mode.present \/ currentGameIds = <<>> THEN st
    ELSE LET g == getMustWatchGames(st.mode, st.cache, st.item)
             validIds == KeepIncluded(g.ret, currentGameIds)
         IN IF Len(validIds) # Len(g.ret)
            THEN [st EXCEPT !.cache = CachedList(validIds), !.item = ListItem(validIds)]
            ELSE [st EXCEPT !.cache = g.cache]

\* cleanupOldMustWatch(currentGameIds)
cleanupOldMustWatch(st, currentGameIds) ==
    IF st.mode.present THEN st
    ELSE LET g == getMustWatchGames(st.mode, st.cache, st.item)
             validIds == KeepIncluded(g.ret, currentGameIds)
         IN IF Len(validIds) # Len(g.ret)
            THEN saveMustWatchGames(st, validIds, FALSE)
            ELSE [st EXCEPT !.cache = g.cache]

\* lines 794-804 of renderBigGamesCard: the auto-marking loop
RECURSIVE AutoMark(_, _)
AutoMark(st, games) ==
    IF games = <<>> THEN st
    ELSE LET game == Head(games)
             g == getMustWatchGames(st.mode, st.cache, st.item)
             next == IF ~game.involvesFavorite THEN st
                     ELSE IF Includes(g.ret, game.id) THEN [st EXCEPT !.cache = g.cache]
                     ELSE saveMustWatchGames(st, Append(g.ret, game.id), g.overlay)
         IN AutoMark(next, Tail(games))

\* the window of the big-games card, in days
BIG_GAMES_WINDOW_DAYS == 7

RECURSIVE Next7Days(_)
Next7Days(games) ==
    IF games = <<>> THEN <<>>
    ELSE IF Head(games).date <= BIG_GAMES_WINDOW_DAYS
         THEN <<Head(games)>> \o Next7Days(Tail(games))
         ELSE Next7Days(Tail(games))

GameIds(games) == [i \in 1..Len(games) |-> games[i].id]

\* loadSchedules() on the page state st, with the answers of the upstream
\* API for this cycle.  st: mode (watchPartyMode), session, url (decoded wp
\* parameter), cache and item (must-watch), favorites, settingsItem.
loadSchedules(st, upstream) ==
    LET active == IF ~st.mode.present THEN getActiveWatchParty(st.session, st.url)
                  ELSE st.mode
        session == IF ~st.mode.present /\ ~st.session.present THEN st.url ELSE st.session
        settings == IF AnyEventCategorized(upstream.plData, upstream.nbaData, upstream.nhlData,
                                           upstream.scoreboard)
                    THEN getBigGameSettings(session, NullDoc, st.settingsItem)
                    ELSE [ret |-> NullDoc.doc, cache |-> NullDoc, item |-> st.settingsItem,
                          writes |-> 0]
        bigGamesResult == fetchBigGames(upstream.plData, upstream.nbaData, upstream.nhlData,
                                        upstream.scoreboard,
                                        getFavoriteTeams(st.favorites), settings.ret)
        allGameIds == upstream.teamGameIds \o GameIds(bigGamesResult.games)
        st1 == [st EXCEPT !.mode = active, !.session = session, !.cache = NullList,
                          !.settingsItem = settings.item]
        st2 == cleanupOldMustWatch(st1, allGameIds)
        next7DaysBigGames == Next7Days(bigGamesResult.games)
        st3 == AutoMark(st2, next7DaysBigGames)
    IN [st |-> st3,
        settingsCache |-> settings.cache,
        activated |-> ~st.mode.present /\ active.present,
        disabled |-> active.present,
        checkboxes |-> {next7DaysBigGames[i].id : i \in
                          {j \in 1..Len(next7DaysBigGames) :
                               ~next7DaysBigGames[j].involvesFavorite}}
                       \cup SeqToSet(upstream.teamGameIds),
        autoMarked |-> {next7DaysBigGames[i].id : i \in
                          {j \in 1..Len(next7DaysBigGames) :
                               next7DaysBigGames[j].involvesFavorite}}]

\* the page state the functions of app.js work on
AppState ==
    [mode |-> watchPartyMode, session |-> watchPartySession, url |-> pageUrlWp,
     cache |-> _mustWatchCache, item |-> localMustWatch,
     favorites |-> localFavorites, settingsItem |-> localSettings]

\* the state after one run of loadSchedules with result r
Rendered(r, op) ==
    /\ watchPartyMode' = r.st.mode
    /\ watchPartySession' = r.st.session
    /\ pageUrlWp' = r.st.url
    /\ _mustWatchCache' = r.st.cache
    /\ localMustWatch' = r.st.item
    /\ localFavorites' = r.st.favorites
    /\ localSettings' = r.st.settingsItem
    /\ _bigGameSettingsCache' = r.settingsCache
    /\ page' = [op |-> op, disabled |-> r.disabled, checkboxes |-> r.checkboxes,
                autoMarked |-> r.autoMarked,
                active |-> r.st.mode.present,
                mustWatchAtActivation |->
                    IF page.active /\ watchPartySession.present
                    THEN page.mustWatchAtActivation
                    ELSE localMustWatch]
    /\ UNCHANGED <<teamCall, gameCall, last, reload, toggles, pureVars>>

\* largest day offset of an upstream event that is enumerated
MaxEventDay == 8

AppEvent(id, date, home, away) ==
    [id |-> id, date |-> date, completed |-> FALSE,
     competitors |-> <<[homeAway |-> "home", id |-> home],
                       [homeAway |-> "away", id |-> away]>>]

NoScoreboard == [c \in CompetitionKeys |-> <<[events |-> <<>>, error |-> FALSE]>>]

\* answers of the upstream API for one cycle: teams 1 and 2 are top tier in
\* every league; a Premier League game tomorrow and an NHL game later
AppUpstream(pl, nhl, teamGameIds) ==
    [plData |-> [qualifyingTeamIds |-> <<StrId("1"), StrId("2")>>,
                 allEnglishTeamIds |-> <<StrId("1"), StrId("2")>>, error |-> FALSE],
     nbaData |-> [topTierTeamIds |-> <<StrId("1"), StrId("2")>>, error |-> FALSE],
     nhlData |-> [topTierTeamIds |-> <<StrId("1"), StrId("2")>>, error |-> FALSE],
     scoreboard |-> [NoScoreboard EXCEPT
                       !["premier-league"] = <<[events |-> pl, error |-> FALSE]>>,
                       !["nhl"] = <<[events |-> nhl, error |-> FALSE]>>],
     teamGameIds |-> teamGameIds]

\* a cycle that loaded the team's game and any of the big games, and a cycle
\* that loaded no game at all
AppUpstreams ==
    {AppUpstream(pl, nhl, <<"t1">>) :
        pl \in {<<>>, <<AppEvent("e1", 1, StrId("1"), StrId("2"))>>},
        nhl \in {<<>>} \cup {<<AppEvent("e2", d, StrId("2"), StrId("1"))>> :
                               d \in {2, MaxEventDay}}}
    \cup {AppUpstream(<<>>, <<>>, <<>>)}

AppWatchParties ==
    {WatchParty(TRUE, <<[id |-> StrId("2"), sport |-> "soccer"]>>,
                TRUE, DEFAULT_BIG_GAME_SETTINGS.perCompetition, TRUE, mw) :
        mw \in {<<>>, <<"e2">>}}
    \cup {WatchParty(FALSE, <<>>, FALSE, EmptyMap, FALSE, <<>>)}

InitialMustWatch == {ListAbsent, ListItem(<<"e2">>), ListItem(<<"t1", "old">>)}

InitialFavorites ==
    {ListAbsent, ListItem(<<[id |-> StrId("1"), sport |-> "soccer"]>>),
     ListItem(<<[id |-> StrId("2"), sport |-> "hockey"]>>)}

AppInit ==
    /\ teamCall = NoTeamCall
    /\ gameCall = NoGameCall
    /\ SettingsIdle
    /\ watchPartyMode = NoWatchParty
    /\ pageUrlWp = NoWatchParty
    /\ localMustWatch \in InitialMustWatch
    /\ _mustWatchCache = NullList
    /\ localFavorites \in InitialFavorites
    /\ page = NoPage
    /\ PureIdle

\* index.html is opened, with or without a wp parameter: the module state
\* starts over and DOMContentLoaded runs loadSchedules()
OpenPage ==
    /\ \E wp \in AppWatchParties \cup {NoWatchParty}, upstream \in AppUpstreams :
        Rendered(loadSchedules([AppState EXCEPT !.mode = NoWatchParty, !.url = wp,
                                                !.cache = NullList], upstream),
                 "open")

\* the refresh timer or the refresh button
Refresh ==
    /\ page.op # "none"
    /\ \E upstream \in AppUpstreams :
        Rendered(loadSchedules(AppState, upstream), "refresh")

\* change event of a must-watch checkbox; a disabled checkbox sends none
ToggleMustWatchBox ==
    /\ page.op # "none"
    /\ ~page.disabled
    /\ \E gameId \in page.checkboxes, upstream \in AppUpstreams :
        Rendered(loadSchedules(toggleMustWatch(AppState, gameId), upstream), "toggle")

\* the banner's link: clearWatchPartySession(), then index.html is loaded
ViewYourOwn ==
    /\ page.op # "none"
    /\ page.disabled
    /\ \E upstream \in AppUpstreams :
        Rendered(loadSchedules([AppState EXCEPT !.mode = NoWatchParty,
                                                !.session = NoWatchParty,
                                                !.url = NoWatchParty,
                                                !.cache = NullList], upstream),
                 "own")

AppNext ==
    \/ OpenPage
    \/ Refresh
    \/ ToggleMustWatchBox
    \/ ViewYourOwn

SpecApp == AppInit /\ [][AppNext]_vars

(***************************************************************************)
(* One run of the big-games pipelines on drawn inputs                      *)
(***************************************************************************)

\* largest team number of the events enumerated
MaxPipeTeamNum == 2

PipeTeamIds == {StrId(NumToString(n)) : n \in 1..MaxPipeTeamNum} \cup {NumId(1)}

\* upstream events: every pairing of two teams, a finished game, an event
\* with one competitor and one with two home sides
PipeEvents ==
    {AppEvent("e1", 1, pair[1], pair[2]) :
        pair \in {q \in PipeTeamIds \X PipeTeamIds : q[1] # q[2]}}
    \cup {[AppEvent("e1", 1, StrId("1"), StrId("2")) EXCEPT !.completed = TRUE]}
    \cup {[AppEvent("e1", 1, StrId("1"), StrId("2")) EXCEPT
              !.competitors = <<[homeAway |-> "home", id |-> StrId("1")]>>]}
    \cup {[AppEvent("e1", 1, StrId("1"), StrId("2")) EXCEPT
              !.competitors = <<[homeAway |-> "home", id |-> StrId("1")],
                                [homeAway |-> "home", id |-> StrId("2")]>>]}

PipeTopTiers ==
    {<<>>, <<StrId("2")>>, <<StrId("1"), StrId("2")>>, <<StrId("1"), StrId("2"), NumId(1)>>}

PipeFavorites ==
    {ListAbsent,
     ListItem(<<[id |-> StrId("1"), sport |-> "soccer"]>>),
     ListItem(<<[id |-> StrId("1"), sport |-> "hockey"]>>),
     ListItem(<<[id |-> StrId("1"), sport |-> "soccer"],
                [id |-> StrId("2"), sport |-> "soccer"]>>),
     ListItem(<<[id |-> StrId("2"), sport |-> "basketball"]>>)}

PipeOtherFavorites ==
    {ListAbsent, ListItem(<<[id |-> StrId("1"), sport |-> "soccer"]>>)}

\* stored settings documents at the current version
PipeSettingsItems ==
    {JSONstringify(DEFAULT_BIG_GAME_SETTINGS),
     JSONstringify(SettingsDoc(FALSE, <<>>, TRUE,
                               [c \in CompetitionKeys |-> <<"rob-lowe">>],
                               SETTINGS_SCHEMA_VERSION)),
     JSONstringify(SettingsDoc(FALSE, <<>>, TRUE,
                               [c \in CompetitionKeys |-> <<>>],
                               SETTINGS_SCHEMA_VERSION))}

PipeWatchParties ==
    {NoWatchParty,
     WatchParty(TRUE, <<[id |-> StrId("2"), sport |-> "soccer"]>>,
                TRUE, DEFAULT_BIG_GAME_SETTINGS.perCompetition, TRUE, <<>>),
     WatchParty(TRUE, <<[id |-> StrId("2"), sport |-> "soccer"]>>,
                TRUE, [c \in {"premier-league"} |-> <<"rob-lowe">>], TRUE, <<>>)}

\* the inputs of one run are drawn; the run itself is a step
PipelineInit ==
    /\ teamCall = NoTeamCall
    /\ gameCall = NoGameCall
    /\ SettingsIdle
    /\ AppIdle
    /\ batch = NoBatch
    /\ responseCache = NoResponseCache
    /\ share = NoShare
    /\ LateIdle
    /\ \E k \in 1..Len(BIG_GAMES_CONFIG), event \in PipeEvents, top \in PipeTopTiers,
          extra \in {<<>>, <<StrId("1")>>}, favorites \in PipeFavorites,
          other \in PipeOtherFavorites, item \in PipeSettingsItems,
          wp \in PipeWatchParties :
         pipeline = [pc |-> "pending", k |-> k, event |-> event,
                     topTierTeamIds |-> top, allEnglishTeamIds |-> top \o extra,
                     favorites |-> favorites, otherFavorites |-> other,
                     settingsItem |-> item, watchParty |-> wp]

\* the answers of the upstream API in a run: the drawn event on the first
\* date of the drawn competition, the drawn standings for every league
PipeScoreboard(p) ==
    [NoScoreboard EXCEPT ![BIG_GAMES_CONFIG[p.k].league] =
                            <<[events |-> <<p.event>>, error |-> FALSE]>>]

PipePlData(p) ==
    [qualifyingTeamIds |-> p.topTierTeamIds, allEnglishTeamIds |-> p.allEnglishTeamIds,
     error |-> FALSE]

PipeTopTierData(p) == [topTierTeamIds |-> p.topTierTeamIds, error |-> FALSE]

\* the settings document that getBigGameSettings() resolves in the run
PipeSettings(p) == getBigGameSettings(p.watchParty, NullDoc, p.settingsItem).ret

\* fetchBigGames() on the By Team page, run once for each of the two local
\* favorite lists under the same watch party, settings and upstream answers
RunFetchBigGames ==
    /\ pipeline.pc = "pending"
    /\ pipeline' =
         [pipeline EXCEPT !.pc = "app"] @@
         [result |-> fetchBigGames(PipePlData(pipeline), PipeTopTierData(pipeline),
                                   PipeTopTierData(pipeline), PipeScoreboard(pipeline),
                                   getFavoriteTeams(pipeline.favorites),
                                   PipeSettings(pipeline)),
          otherResult |-> fetchBigGames(PipePlData(pipeline), PipeTopTierData(pipeline),
                                        PipeTopTierData(pipeline), PipeScoreboard(pipeline),
                                        getFavoriteTeams(pipeline.otherFavorites),
                                        PipeSettings(pipeline)),
          involvesFavorite |->
              LET config == BIG_GAMES_CONFIG[pipeline.k]
              IN \E c \in 1..Len(pipeline.event.competitors) :
                    isFavoriteTeamId(getFavoriteTeams(pipeline.favorites),
                                     pipeline.event.competitors[c].id, config.sport),
          tiers |->
              LET config == BIG_GAMES_CONFIG[pipeline.k]
              IN [c \in 1..Len(pipeline.event.competitors) |->
                    categorizeTeam(pipeline.event.competitors[c].id,
                                   pipeline.topTierTeamIds,
                                   getFavoriteTeamIdsBySport(
                                       getFavoriteTeams(pipeline.favorites), config.sport))]]
    /\ UNCHANGED <<catVars, settingsVars, appVars, batch, responseCache, share, lateVars>>

\* fetchBigGamesForCalendar() on the calendar page
RunFetchBigGamesForCalendar ==
    /\ pipeline.pc = "pending"
    /\ pipeline' =
         [pipeline EXCEPT !.pc = "calendar"] @@
         [result |-> fetchBigGamesForCalendar(
                         PipePlData(pipeline), PipeTopTierData(pipeline),
                         PipeTopTierData(pipeline), PipeScoreboard(pipeline),
                         getFavoriteTeams(pipeline.favorites), PipeSettings(pipeline)),
          otherResult |-> fetchBigGamesForCalendar(
                         PipePlData(pipeline), PipeTopTierData(pipeline),
                         PipeTopTierData(pipeline), PipeScoreboard(pipeline),
                         getFavoriteTeams(pipeline.otherFavorites), PipeSettings(pipeline)),
          involvesFavorite |->
              \E c \in 1..Len(pipeline.event.competitors) :
                    calendarIsFavoriteTeamId(getFavoriteTeams(pipeline.favorites),
                                             pipeline.event.competitors[c].id),
          tiers |->
              [c \in 1..Len(pipeline.event.competitors) |->
                    categorizeTeam(pipeline.event.competitors[c].id,
                                   pipeline.topTierTeamIds,
                                   getFavoriteTeamIds(getFavoriteTeams(pipeline.favorites)))]]
    /\ UNCHANGED <<catVars, settingsVars, appVars, batch, responseCache, share, lateVars>>

PipelineNext ==
    \/ RunFetchBigGames
    \/ RunFetchBigGamesForCalendar

SpecPipeline == PipelineInit /\ [][PipelineNext]_vars

(***************************************************************************)
(* Batches of scoreboard fetches (app.js)                                  *)
(***************************************************************************)

\* fetchScoreboardForDate(espnPath, dateStr) for one outcome of the lookup:
\* a cache hit, an answer with response.ok false, an answer with or without
\* an events property, or an exception of fetch / response.json
fetchScoreboardForDate(outcome) ==
    IF outcome.kind = "cached" THEN [events |-> outcome.events, error |-> FALSE]
    ELSE IF outcome.kind = "not-ok" THEN [events |-> <<>>, error |-> TRUE]
    ELSE IF outcome.kind = "ok" THEN [events |-> outcome.events, error |-> FALSE]
    ELSE [events |-> <<>>, error |-> TRUE]

FetchAll(outcomes) == [i \in 1..Len(outcomes) |-> fetchScoreboardForDate(outcomes[i])]

\* competitors.some(c => c.id === team.id || c.team?.id === team.id)
IsOurGame(event, team) ==
    \E i \in 1..Len(event.competitors) : event.competitors[i].id = team.id

RECURSIVE OurEvents(_, _)
OurEvents(events, team) ==
    IF events = <<>> THEN <<>>
    ELSE IF IsOurGame(Head(events), team) THEN <<Head(events)>> \o OurEvents(Tail(events), team)
         ELSE OurEvents(Tail(events), team)

ErrorCount(results) == Cardinality({i \in 1..Len(results) : results[i].error})

\* fetchTeamGamesFromScoreboard(team) with the outcomes of the date lookups
fetchTeamGamesFromScoreboard(team, outcomes) ==
    LET results == FetchAll(outcomes)
        errorCount == ErrorCount(results)
        hasSignificantErrors == 2 * errorCount > Len(outcomes)
    IN [team |-> team,
        events |-> DedupeById(OurEvents(EventsOf(results), team), {}),
        error |-> hasSignificantErrors]

\* most dates of a per-team batch (the program asks for DAYS_AHEAD dates)
MaxDates == 3
\* most dates of a big-games batch
MaxBigDates == 1

BatchTeam == [id |-> StrId("1"), sport |-> "soccer"]

\* what a date's scoreboard holds: one of our games or a game of others
BatchTeamEvents ==
    {<<AppEvent("g1", 1, StrId("1"), StrId("2"))>>,
     <<AppEvent("g2", 2, StrId("2"), StrId("1"))>>,
     <<AppEvent("g3", 1, StrId("2"), StrId("3"))>>}

BatchTeamOutcomes ==
    {[kind |-> k, events |-> ev] : k \in {"cached", "ok"}, ev \in BatchTeamEvents}
    \cup {[kind |-> "ok", events |-> <<>>],
          [kind |-> "not-ok", events |-> <<>>],
          [kind |-> "throws", events |-> <<>>]}

\* the event of a competition on a date: two top-tier teams, not finished
BatchBigEvent(league, d) ==
    AppEvent(league \o "-" \o NumToString(d), d, StrId("1"), StrId("2"))

BatchBigOutcome(league, d, failed) ==
    IF failed THEN [kind |-> "not-ok", events |-> <<>>]
    ELSE [kind |-> "ok", events |-> <<BatchBigEvent(league, d)>>]

BatchStandings(failed) ==
    IF failed THEN <<>> ELSE <<StrId("1"), StrId("2")>>

\* the outcomes of a batch are drawn; the batch itself is a step
BatchInit ==
    /\ teamCall = NoTeamCall
    /\ gameCall = NoGameCall
    /\ SettingsIdle
    /\ AppIdle
    /\ pipeline = NoPipeline
    /\ responseCache = NoResponseCache
    /\ share = NoShare
    /\ LateIdle
    /\ \/ \E n \in 1..MaxDates :
            \E outcomes \in [1..n -> BatchTeamOutcomes] :
               batch = [pc |-> "pending", kind |-> "team", team |-> BatchTeam,
                        outcomes |-> outcomes]
       \/ \E n \in 1..MaxBigDates :
            \E failed \in [CompetitionKeys -> [1..n -> BOOLEAN]],
               standingsFailed \in [{"pl", "nba", "nhl"} -> BOOLEAN] :
               batch = [pc |-> "pending", kind |-> "big", failed |-> failed,
                        standingsFailed |-> standingsFailed, dates |-> n]

RunFetchTeamGamesFromScoreboard ==
    /\ batch.pc = "pending"
    /\ batch.kind = "team"
    /\ batch' = [batch EXCEPT !.pc = "done"] @@
                [result |-> fetchTeamGamesFromScoreboard(batch.team, batch.outcomes)]
    /\ UNCHANGED <<catVars, settingsVars, appVars, pipeline, responseCache, share, lateVars>>

RunFetchBigGamesBatch ==
    /\ batch.pc = "pending"
    /\ batch.kind = "big"
    /\ batch' = [batch EXCEPT !.pc = "done"] @@
         [result |->
            fetchBigGames(
              [qualifyingTeamIds |-> BatchStandings(batch.standingsFailed["pl"]),
               allEnglishTeamIds |-> BatchStandings(batch.standingsFailed["pl"]),
               error |-> batch.standingsFailed["pl"]],
              [topTierTeamIds |-> BatchStandings(batch.standingsFailed["nba"]),
               error |-> batch.standingsFailed["nba"]],
              [topTierTeamIds |-> BatchStandings(batch.standingsFailed["nhl"]),
               error |-> batch.standingsFailed["nhl"]],
              [c \in CompetitionKeys |->
                  FetchAll([d \in 1..batch.dates |->
                               BatchBigOutcome(c, d, batch.failed[c][d])])],
              DEFAULT_TEAMS, DEFAULT_BIG_GAME_SETTINGS)]
    /\ UNCHANGED <<catVars, settingsVars, appVars, pipeline, responseCache, share, lateVars>>

BatchNext ==
    \/ RunFetchTeamGamesFromScoreboard
    \/ RunFetchBigGamesBatch

SpecBatch == BatchInit /\ [][BatchNext]_vars

(***************************************************************************)
(* The API response cache (shared.js)                                      *)
(***************************************************************************)

\* 24 hours in milliseconds
DEFAULT_TTL == 24 * 60 * 60 * 1000

\* getCached(key) at time now: the value returned and the store afterwards
getCached(store, key, now) ==
    LET entry == store[key]
    IN IF ~entry.present THEN [ret |-> NULL, store |-> store]
       ELSE LET age == now - entry.timestamp
                limit == IF entry.ttl # 0 THEN entry.ttl ELSE DEFAULT_TTL
            IN IF age < limit
               THEN [ret |-> entry.data, store |-> store]
               ELSE [ret |-> NULL, store |-> [store EXCEPT ![key] = NoEntry]]

\* setCache(key, data, ttl) at time now
setCache(store, key, data, ttl, now) ==
    [store EXCEPT ![key] = [present |-> TRUE, timestamp |-> now, data |-> data, ttl |-> ttl]]

\* clearAllCache(): every key of the store carries the prefix
clearAllCache(store) == [k \in DOMAIN store |-> NoEntry]

\* number of times the clock is moved forward in a run
MaxAdvances == 2

CacheKeys == {"standings-nba", "scoreboard-soccer/eng.1-20260101"}
CacheData == {"v1", "v2"}
CacheTtls == {0, 1, DEFAULT_TTL}
ClockSteps == {1, DEFAULT_TTL}

CacheInit ==
    /\ teamCall = NoTeamCall
    /\ gameCall = NoGameCall
    /\ SettingsIdle
    /\ AppIdle
    /\ pipeline = NoPipeline
    /\ batch = NoBatch
    /\ share = NoShare
    /\ LateIdle
    /\ responseCache = [pc |-> "ready", store |-> [k \in CacheKeys |-> NoEntry], now |-> 0,
                        advances |-> 0, op |-> "none", key |-> "", ret |-> NULL,
                        before |-> NoEntry]

CacheUnchanged == UNCHANGED <<catVars, settingsVars, appVars, pipeline, batch, share, lateVars>>

\* a caller stores an answer: setCache(key, data) or setCache(key, data, ttl)
SetCache ==
    /\ responseCache.pc = "ready"
    /\ \E key \in CacheKeys, data \in CacheData, ttl \in CacheTtls :
         responseCache' =
            [responseCache EXCEPT
                !.store = setCache(responseCache.store, key, data, ttl, responseCache.now),
                !.op = "set", !.key = key, !.ret = NULL,
                !.before = responseCache.store[key]]
    /\ CacheUnchanged

\* a caller reads: getCached(key)
GetCached ==
    /\ responseCache.pc = "ready"
    /\ \E key \in CacheKeys :
         LET r == getCached(responseCache.store, key, responseCache.now)
         IN responseCache' =
               [responseCache EXCEPT !.store = r.store, !.op = "get", !.key = key,
                                     !.ret = r.ret, !.before = responseCache.store[key]]
    /\ CacheUnchanged

\* the refresh button: clearAllCache()
ClearAllCache ==
    /\ responseCache.pc = "ready"
    /\ responseCache' =
          [responseCache EXCEPT !.store = clearAllCache(responseCache.store),
                                !.op = "clear", !.key = "", !.ret = NULL,
                                !.before = NoEntry]
    /\ CacheUnchanged

\* Date.now() moves on
AdvanceClock ==
    /\ responseCache.pc = "ready"
    /\ responseCache.advances < MaxAdvances
    /\ \E dt \in ClockSteps :
         responseCache' =
            [responseCache EXCEPT !.now = responseCache.now + dt,
                                  !.advances = responseCache.advances + 1,
                                  !.op = "tick", !.key = "", !.ret = NULL,
                                  !.before = NoEntry]
    /\ CacheUnchanged

CacheNext ==
    \/ SetCache
    \/ GetCached
    \/ ClearAllCache
    \/ AdvanceClock

SpecCache == CacheInit /\ [][CacheNext]_vars

(***************************************************************************)
(* Watch-party sharing: the token codec and the session (shared.js)        *)
(*                                                                         *)
(* A JavaScript string is the sequence of its UTF-16 code units.           *)
(***************************************************************************)

\* JSON values: null, numbers, strings, the empty object and snapshots
JNull == [t |-> "null"]
JNum(n) == [t |-> "num", n |-> n]
JStr(s) == [t |-> "str", s |-> s]
JEmptyObject == [t |-> "obj"]

\* the settings object built by generateWatchPartyURL; a team is kept by
\* its name, bigGames is the perCompetition map
Snapshot(teams, bigGames, showPreseason, mustWatch) ==
    [t |-> "snapshot", teams |-> teams, bigGames |-> bigGames,
     showPreseason |-> showPreseason, mustWatch |-> mustWatch]

\* JavaScript truthiness of a JSON value
JsTruthy(v) ==
    /\ v.t # "null"
    /\ ~(v.t = "num" /\ v.n = 0)
    /\ ~(v.t = "str" /\ v.s = <<>>)

\* the text {"teams":[
TextTeamsOpen == <<123, 34, 116, 101, 97, 109, 115, 34, 58, 91>>

\* the text {"name":"
TextNameOpen == <<123, 34, 110, 97, 109, 101, 34, 58, 34>>

\* the text "}
TextNameClose == <<34, 125>>

\* the text ],"bigGames":
TextBigGamesOpen == <<93, 44, 34, 98, 105, 103, 71, 97, 109, 101, 115, 34, 58>>

\* the text {}
TextNoCompetitions == <<123, 125>>

\* the text {"nba":[]}
TextNbaNone == <<123, 34, 110, 98, 97, 34, 58, 91, 93, 125>>

\* the text ,"showPreseason":
TextShowPreseason == <<44, 34, 115, 104, 111, 119, 80, 114, 101, 115, 101, 97, 115, 111, 110, 34, 58>>

\* the text true
TextTrue == <<116, 114, 117, 101>>

\* the text false
TextFalse == <<102, 97, 108, 115, 101>>

\* the text ,"mustWatch":[
TextMustWatchOpen == <<44, 34, 109, 117, 115, 116, 87, 97, 116, 99, 104, 34, 58, 91>>

\* the text ]}
TextSnapshotClose == <<93, 125>>

\* the text null
TextNull == <<110, 117, 108, 108>>

\* the text {}
TextEmptyObject == <<123, 125>>

\* JSON.stringify of a string: quotation mark and reverse solidus are
\* escaped, every other code unit of the alphabets used here is copied
RECURSIVE EscapeJson(_)
EscapeJson(s) ==
    IF s = <<>> THEN <<>>
    ELSE (IF Head(s) \in {34, 92} THEN <<92, Head(s)>> ELSE <<Head(s)>>)
         \o EscapeJson(Tail(s))

QuoteJson(s) == <<34>> \o EscapeJson(s) \o <<34>>

\* the items of an array, separated by commas
RECURSIVE JoinJson(_)
JoinJson(items) ==
    IF items = <<>> THEN <<>>
    ELSE IF Len(items) = 1 THEN items[1]
    ELSE items[1] \o <<44>> \o JoinJson(Tail(items))

\* JSON.stringify of a value, as the sequence of code units of the text
JSONstringifyText(v) ==
    IF v.t = "null" THEN TextNull
    ELSE IF v.t = "num" THEN <<48 + v.n>>
    ELSE IF v.t = "str" THEN QuoteJson(v.s)
    ELSE IF v.t = "obj" THEN TextEmptyObject
    ELSE TextTeamsOpen
         \o JoinJson([i \in 1..Len(v.teams) |->
                         TextNameOpen \o EscapeJson(v.teams[i]) \o TextNameClose])
         \o TextBigGamesOpen
         \o (IF DOMAIN v.bigGames = {} THEN TextNoCompetitions ELSE TextNbaNone)
         \o TextShowPreseason
         \o (IF v.showPreseason THEN TextTrue ELSE TextFalse)
         \o TextMustWatchOpen
         \o JoinJson([i \in 1..Len(v.mustWatch) |-> QuoteJson(v.mustWatch[i])])
         \o TextSnapshotClose

\* the character of a 6-bit value in the base64 alphabet, and back
B64Char(v) ==
    IF v < 26 THEN 65 + v
    ELSE IF v < 52 THEN 97 + (v - 26)
    ELSE IF v < 62 THEN 48 + (v - 52)
    ELSE IF v = 62 THEN 43 ELSE 47

B64Value(c) ==
    IF c >= 65 /\ c <= 90 THEN c - 65
    ELSE IF c >= 97 /\ c <= 122 THEN c - 97 + 26
    ELSE IF c >= 48 /\ c <= 57 THEN c - 48 + 52
    ELSE IF c = 43 THEN 62
    ELSE IF c = 47 THEN 63 ELSE -1

\* base64 of a sequence of bytes: three bytes give four characters, the
\* last group is padded with "="
Base64Encode(s) ==
    LET n == Len(s)
        byte(j) == IF j <= n THEN s[j] ELSE 0
    IN [i \in 1..(4 * ((n + 2) \div 3)) |->
           LET g == (i - 1) \div 4
               k == (i - 1) % 4
               b1 == byte(3 * g + 1)
               b2 == byte(3 * g + 2)
               b3 == byte(3 * g + 3)
           IN IF k = 0 THEN B64Char(b1 \div 4)
              ELSE IF k = 1 THEN B64Char((b1 % 4) * 16 + b2 \div 16)
              ELSE IF k = 2
              THEN IF 3 * g + 2 > n THEN 61 ELSE B64Char((b2 % 16) * 4 + b3 \div 64)
              ELSE IF 3 * g + 3 > n THEN 61 ELSE B64Char(b3 % 64)]

\* btoa: throws InvalidCharacterError when a code unit is above U+00FF
btoa(s) ==
    IF \E i \in 1..Len(s) : s[i] > 255
    THEN [ok |-> FALSE, text |-> <<>>]
    ELSE [ok |-> TRUE, text |-> Base64Encode(s)]

\* the bytes of base64 characters: four characters give three bytes, the
\* bits left over in a last group of two or three characters are dropped
Base64Decode(d) ==
    [i \in 1..((Len(d) * 3) \div 4) |->
        LET g == (i - 1) \div 3
            k == (i - 1) % 3
            v(j) == B64Value(d[4 * g + j])
        IN IF k = 0 THEN v(1) * 4 + v(2) \div 16
           ELSE IF k = 1 THEN (v(2) % 16) * 16 + v(3) \div 4
           ELSE (v(3) % 4) * 64 + v(4)]

IsAsciiWhitespace(c) == c \in {9, 10, 12, 13, 32}

StripAsciiWhitespace(s) == SelectSeq(s, LAMBDA c : ~IsAsciiWhitespace(c))

\* atob (forgiving-base64 decode): whitespace is removed, one or two
\* padding characters are removed when the length is a multiple of 4, and
\* it throws on a length of 1 modulo 4 or a character outside the alphabet
atob(encoded) ==
    LET data == StripAsciiWhitespace(encoded)
        n == Len(data)
        unpadded ==
            IF n > 0 /\ n % 4 = 0 /\ data[n] = 61
            THEN IF data[n - 1] = 61 THEN SubSeq(data, 1, n - 2)
                 ELSE SubSeq(data, 1, n - 1)
            ELSE data
    IN IF Len(unpadded) % 4 = 1
          \/ \E i \in 1..Len(unpadded) : B64Value(unpadded[i]) = -1
       THEN [ok |-> FALSE, text |-> <<>>]
       ELSE [ok |-> TRUE, text |-> Base64Decode(unpadded)]

\* number of teams in a shared snapshot
MaxShareTeams == 1

\* team names: one holding a quotation mark, "AAú" (U+00FA), "ş" (U+015F)
ShareTeamNames == {<<34, 65>>, <<65, 65, 250>>, <<351>>}

ShareTeamLists ==
    UNION {[1..n -> ShareTeamNames] : n \in 0..MaxShareTeams}

ShareSnapshots ==
    {Snapshot(teams, bigGames, showPreseason, mustWatch) :
        teams \in ShareTeamLists,
        bigGames \in {EmptyMap, [c \in {"nba"} |-> <<>>]},
        showPreseason \in BOOLEAN,
        mustWatch \in {<<>>, <<(<<52, 48, 49>>)>>}}

\* the JSON values of the model
JsonValues ==
    ShareSnapshots \cup {JNull, JNum(0), JNum(5), JStr(<<>>), JStr(<<65>>), JEmptyObject}

StringifiedJson == [v \in JsonValues |-> JSONstringifyText(v)]

\* JSON.parse of a text: the value whose text it is, or SyntaxError
JSONparseText(text) ==
    IF \E v \in JsonValues : StringifiedJson[v] = text
    THEN [ok |-> TRUE, value |-> CHOOSE v \in JsonValues : StringifiedJson[v] = text]
    ELSE [ok |-> FALSE, value |-> JNull]

\* encodeWatchParty(settings): the token, or null when btoa throws
encodeWatchParty(settings) ==
    LET b == btoa(JSONstringifyText(settings))
    IN IF b.ok THEN [isNull |-> FALSE, text |-> b.text]
       ELSE [isNull |-> TRUE, text |-> <<>>]

\* variant: a text JSON.parse rejects is handed on as a string
decodeWatchParty_noCatch(encoded) ==
    LET a == atob(encoded)
    IN IF ~a.ok THEN JNull
       ELSE LET parsed == JSONparseText(a.text)
            IN IF parsed.ok THEN parsed.value ELSE JStr(a.text)

\* decodeWatchParty(encoded): the value, or null when atob or JSON.parse throws
decodeWatchParty(encoded) ==
    LET a == atob(encoded)
    IN IF ~a.ok THEN JNull
       ELSE LET parsed == JSONparseText(a.text)
            IN IF parsed.ok THEN parsed.value ELSE JNull

\* generateWatchPartyURL: null, or the page URL with search ?wp=<token>
generateWatchPartyURL(teams, bigGames, showPreseason, mustWatch) ==
    LET encoded == encodeWatchParty(Snapshot(teams, bigGames, showPreseason, mustWatch))
    IN IF encoded.isNull THEN [isNull |-> TRUE, wp |-> <<>>]
       ELSE [isNull |-> FALSE, wp |-> encoded.text]

\* URLSearchParams: a plus sign in the query stands for a space
PlusToSpace(s) == [i \in 1..Len(s) |-> IF s[i] = 43 THEN 32 ELSE s[i]]

NoSearch == [present |-> FALSE, wp |-> <<>>]
Search(wp) == [present |-> TRUE, wp |-> wp]

\* getWatchPartyFromURL() with the URL's query
getWatchPartyFromURL(search) ==
    LET wp == PlusToSpace(search.wp)
    IN IF search.present /\ wp # <<>> THEN decodeWatchParty(wp) ELSE JNull

NoSessionItem == [present |-> FALSE, text |-> <<>>]

\* setWatchPartySession(settings): the item of sessionStorage afterwards
setWatchPartySession(settings) == [present |-> TRUE, text |-> JSONstringifyText(settings)]

\* getWatchPartySession() with the item of sessionStorage
getWatchPartySession(item) ==
    IF item.present /\ item.text # <<>>
    THEN LET parsed == JSONparseText(item.text)
         IN IF parsed.ok THEN parsed.value ELSE JNull
    ELSE JNull

\* variant: the URL token is looked at first
ActiveWatchParty_urlFirst(item, search) ==
    LET sessionWp == getWatchPartySession(item)
        urlWp == getWatchPartyFromURL(search)
    IN IF JsTruthy(urlWp) THEN [ret |-> urlWp, item |-> setWatchPartySession(urlWp)]
       ELSE IF JsTruthy(sessionWp) THEN [ret |-> sessionWp, item |-> item]
       ELSE [ret |-> JNull, item |-> item]

\* getActiveWatchParty() over the stored item and the URL's query: the value
\* returned and the item of sessionStorage afterwards
ActiveWatchParty(item, search) ==
    LET sessionWp == getWatchPartySession(item)
        urlWp == getWatchPartyFromURL(search)
    IN IF JsTruthy(sessionWp) THEN [ret |-> sessionWp, item |-> item]
       ELSE IF JsTruthy(urlWp) THEN [ret |-> urlWp, item |-> setWatchPartySession(urlWp)]
       ELSE [ret |-> JNull, item |-> item]

\* tokens that are not base64, tokens whose text is not JSON, and a cut token
UndecodableTokens ==
    {<<33>>, <<65>>, <<65, 61, 61, 61>>,
     Base64Encode(<<123>>), Base64Encode(<<110, 117, 108>>),
     SubSeq(Base64Encode(JSONstringifyText(Snapshot(<<>>, EmptyMap, TRUE, <<>>))), 1, 40)}

\* tokens of JSON values that are not snapshots
OtherValueTokens ==
    {Base64Encode(JSONstringifyText(v)) :
        v \in {JNull, JNum(0), JNum(5), JStr(<<>>), JStr(<<65>>), JEmptyObject}}

\* snapshots whose links are opened; the token of the last one holds a
\* plus sign
OpenedSnapshots ==
    {Snapshot(<<>>, EmptyMap, TRUE, <<>>),
     Snapshot(<<(<<34, 65>>)>>, [c \in {"nba"} |-> <<>>], FALSE, <<(<<52, 48, 49>>)>>),
     Snapshot(<<(<<65, 65, 250>>)>>, EmptyMap, TRUE, <<>>)}

\* the wp parameters a page is opened with
ShareTokens ==
    {encodeWatchParty(x).text : x \in OpenedSnapshots}
    \cup UndecodableTokens \cup OtherValueTokens \cup {<<>>}

ShareInit ==
    /\ teamCall = NoTeamCall
    /\ gameCall = NoGameCall
    /\ SettingsIdle
    /\ AppIdle
    /\ pipeline = NoPipeline
    /\ batch = NoBatch
    /\ responseCache = NoResponseCache
    /\ LateIdle
    /\ share = [pc |-> "ready", sessionItem |-> NoSessionItem, search |-> NoSearch,
                op |-> "none", ret |-> JNull, beforeItem |-> NoSessionItem,
                adopted |-> JNull, input |-> JNull,
                url |-> [isNull |-> TRUE, wp |-> <<>>]]

ShareUnchanged == UNCHANGED <<catVars, settingsVars, appVars, pipeline, batch, responseCache, lateVars>>

\* the share button: generateWatchPartyURL with the sender's settings
ShareLink ==
    /\ share.pc = "ready"
    /\ \E x \in ShareSnapshots :
         share' = [share EXCEPT
                      !.op = "share", !.input = x, !.ret = JNull,
                      !.beforeItem = share.sessionItem,
                      !.url = generateWatchPartyURL(x.teams, x.bigGames,
                                                    x.showPreseason, x.mustWatch)]
    /\ ShareUnchanged

\* the tab goes to a URL of the site, with or without a wp parameter
Navigate ==
    /\ share.pc = "ready"
    /\ \E search \in {NoSearch} \cup {Search(wp) : wp \in ShareTokens} :
         share' = [share EXCEPT
                      !.op = "navigate", !.search = search, !.ret = JNull,
                      !.input = JNull, !.beforeItem = share.sessionItem,
                      !.url = [isNull |-> TRUE, wp |-> <<>>]]
    /\ ShareUnchanged

\* a page's init: getActiveWatchParty()
GetActiveWatchParty ==
    /\ share.pc = "ready"
    /\ LET r == ActiveWatchParty(share.sessionItem, share.search)
       IN share' = [share EXCEPT
                       !.op = "getActive", !.ret = r.ret, !.sessionItem = r.item,
                       !.beforeItem = share.sessionItem, !.input = JNull,
                       !.adopted = IF ~share.sessionItem.present /\ r.item.present
                                   THEN r.ret ELSE share.adopted,
                       !.url = [isNull |-> TRUE, wp |-> <<>>]]
    /\ ShareUnchanged

\* "View your own": clearWatchPartySession()
ClearWatchPartySession ==
    /\ share.pc = "ready"
    /\ share.sessionItem.present
    /\ share' = [share EXCEPT
                    !.op = "clear", !.sessionItem = NoSessionItem, !.ret = JNull,
                    !.beforeItem = share.sessionItem, !.adopted = JNull,
                    !.input = JNull, !.url = [isNull |-> TRUE, wp |-> <<>>]]
    /\ ShareUnchanged

ShareNext ==
    \/ ShareLink
    \/ Navigate
    \/ GetActiveWatchParty
    \/ ClearWatchPartySession

SpecShare == ShareInit /\ [][ShareNext]_vars

(***************************************************************************)
(* Persisted documents of unexpected shape (app.js, shared.js)             *)
(*                                                                         *)
(* A stored text is told apart by what JSON.parse makes of it: absent,     *)
(* corrupt (SyntaxError), null, a number, an object without the expected   *)
(* properties, or a document of the expected shape.  A reader's result is  *)
(* "default" or the parsed value, named by its kind.                       *)
(***************************************************************************)

EarlierIdle ==
    /\ teamCall = NoTeamCall
    /\ gameCall = NoGameCall
    /\ SettingsIdle
    /\ AppIdle
    /\ pipeline = NoPipeline
    /\ batch = NoBatch
    /\ responseCache = NoResponseCache
    /\ share = NoShare

earlierVars == <<catVars, settingsVars, appVars, pipeline, batch, responseCache, share>>

StoredKinds == {"absent", "corrupt", "null", "number", "object", "valid"}

\* getFavoriteTeams() of app.js on an empty cache: Array.isArray(teams) &&
\* teams.length > 0, everything else falls through to DEFAULT_TEAMS
StoredFavoriteTeams(kind) == IF kind = "valid" THEN "valid" ELSE "default"

\* getBigGameSettings() on an empty cache outside watch-party mode: null
\* throws inside the try, a value without the two properties falls through
StoredBigGameSettings(kind) == IF kind = "valid" THEN "valid" ELSE "default"

\* getMustWatchGames() on an empty cache outside watch-party mode:
\* saved ? JSON.parse(saved) : [], and [] when JSON.parse throws
StoredMustWatch(kind) == IF kind \in {"absent", "corrupt"} THEN "default" ELSE kind

\* getCached(key): null throws on entry.timestamp inside the try, a value
\* without timestamp has age NaN and is removed
StoredCacheEntry(kind) == IF kind = "valid" THEN "valid" ELSE "default"

\* getWatchPartySession(): saved ? JSON.parse(saved) : null
StoredWatchParty(kind) == IF kind \in {"absent", "corrupt", "null"} THEN "default" ELSE kind

\* x.filter(...) and x.includes(...) exist
IsArrayKind(value) == value \in {"default", "valid"}

\* one refresh cycle (loadSchedules) over the stored documents; hasGames says
\* whether a game row is rendered, which calls isMustWatch
RefreshOverStored(docs, hasGames) ==
    LET watchParty == StoredWatchParty(docs.session)
        active == watchParty # "default"
        overlayMustWatch == watchParty = "valid"
        mustWatch == StoredMustWatch(docs.mustWatch)
        cleanupThrows == ~active /\ ~IsArrayKind(mustWatch)
        renderThrows == hasGames /\ ~overlayMustWatch /\ ~IsArrayKind(mustWatch)
    IN [favorites |-> StoredFavoriteTeams(docs.favorites),
        settings |-> StoredBigGameSettings(docs.settings),
        mustWatch |-> mustWatch,
        cacheEntry |-> StoredCacheEntry(docs.cacheEntry),
        session |-> watchParty,
        banner |-> active,
        outcome |-> IF cleanupThrows \/ renderThrows THEN "error" ELSE "rendered"]

StoredInit ==
    /\ EarlierIdle
    /\ favStore = [pc |-> "idle"]
    /\ matchup = [pc |-> "idle"]
    /\ fetcher = [pc |-> "idle"]
    /\ cycles = [pc |-> "idle"]
    /\ \E docs \in [{"favorites", "settings", "mustWatch", "cacheEntry", "session"} -> StoredKinds],
          hasGames \in BOOLEAN :
         stored = [pc |-> "pending", docs |-> docs, hasGames |-> hasGames]

\* the page is opened and loadSchedules runs
RunRefreshOverStored ==
    /\ stored.pc = "pending"
    /\ stored' = [pc |-> "done", docs |-> stored.docs, hasGames |-> stored.hasGames,
                  result |-> RefreshOverStored(stored.docs, stored.hasGames)]
    /\ UNCHANGED <<earlierVars, favStore, matchup, fetcher, cycles>>

StoredNext == RunRefreshOverStored

SpecStored == StoredInit /\ [][StoredNext]_vars

(***************************************************************************)
(* The favorite-team list of the settings page (settings.js)               *)
(*                                                                         *)
(* A team is kept by its id and league.  DEFAULT_TEAMS of settings.js is   *)
(* an array object of the page: getFavoriteTeams hands out that object     *)
(* itself, so a push or a swap by the caller changes it for later reads.   *)
(***************************************************************************)

MAX_TEAMS == 10

FavTeam(id, league) == [id |-> id, league |-> league]

\* DEFAULT_TEAMS of settings.js as written in the source
SETTINGS_DEFAULT_TEAMS ==
    <<FavTeam("368", "premier-league"), FavTeam("27", "nfl"),
      FavTeam("20", "nhl"), FavTeam("30", "mlb")>>

ListCorrupt == [kind |-> "corrupt", list |-> <<>>]

\* getFavoriteTeams() of settings.js: the array returned and whether it is
\* the page's DEFAULT_TEAMS object
settingsGetFavoriteTeams(item, defaults) ==
    IF item.kind = "json" /\ Len(item.list) > 0
    THEN [teams |-> item.list, isDefaults |-> FALSE]
    ELSE [teams |-> defaults, isDefaults |-> TRUE]

\* saveFavoriteTeams(teams)
saveFavoriteTeams(teams) == ListItem(teams)

HasTeam(teams, id, league) ==
    \E i \in 1..Len(teams) : teams[i].id = id /\ teams[i].league = league

\* variant: no limit on the number of teams
addFavoriteTeam_noLimit(item, defaults, team) ==
    LET read == settingsGetFavoriteTeams(item, defaults)
        teams == read.teams
    IN IF HasTeam(teams, team.id, team.league)
       THEN [ret |-> FALSE, alert |-> FALSE, item |-> item, defaults |-> defaults]
       ELSE LET pushed == Append(teams, team)
            IN [ret |-> TRUE, alert |-> FALSE, item |-> saveFavoriteTeams(pushed),
                defaults |-> IF read.isDefaults THEN pushed ELSE defaults]

\* addFavoriteTeam(team): the value returned, whether the alert was shown,
\* the stored item and the DEFAULT_TEAMS object afterwards
addFavoriteTeam(item, defaults, team) ==
    LET read == settingsGetFavoriteTeams(item, defaults)
        teams == read.teams
    IN IF Len(teams) >= MAX_TEAMS
       THEN [ret |-> FALSE, alert |-> TRUE, item |-> item, defaults |-> defaults]
       ELSE IF HasTeam(teams, team.id, team.league)
       THEN [ret |-> FALSE, alert |-> FALSE, item |-> item, defaults |-> defaults]
       ELSE LET pushed == Append(teams, team)
            IN [ret |-> TRUE, alert |-> FALSE, item |-> saveFavoriteTeams(pushed),
                defaults |-> IF read.isDefaults THEN pushed ELSE defaults]

\* removeFavoriteTeam(teamId, league): filter makes a new array
removeFavoriteTeam(item, defaults, teamId, league) ==
    LET teams == settingsGetFavoriteTeams(item, defaults).teams
        filtered == SelectSeq(teams, LAMBDA t : ~(t.id = teamId /\ t.league = league))
    IN [item |-> saveFavoriteTeams(filtered), defaults |-> defaults]

\* findIndex: the first index of the team, 0 when there is none
FindTeamIndex(teams, id, league) ==
    IF HasTeam(teams, id, league)
    THEN CHOOSE i \in 1..Len(teams) :
            /\ teams[i].id = id /\ teams[i].league = league
            /\ \A j \in 1..(i - 1) : ~(teams[j].id = id /\ teams[j].league = league)
    ELSE 0

\* variant: the team is copied to its new place, the neighbour is lost
moveFavoriteTeam_overwrite(item, defaults, teamId, league, direction) ==
    LET read == settingsGetFavoriteTeams(item, defaults)
        teams == read.teams
        index == FindTeamIndex(teams, teamId, league)
        newIndex == IF direction = "up" THEN index - 1 ELSE index + 1
    IN IF index = 0 \/ newIndex < 1 \/ newIndex > Len(teams)
       THEN [item |-> item, defaults |-> defaults]
       ELSE LET swapped == [teams EXCEPT ![newIndex] = teams[index]]
            IN [item |-> saveFavoriteTeams(swapped),
                defaults |-> IF read.isDefaults THEN swapped ELSE defaults]

\* moveFavoriteTeam(teamId, league, direction): the swap is done in place
moveFavoriteTeam(item, defaults, teamId, league, direction) ==
    LET read == settingsGetFavoriteTeams(item, defaults)
        teams == read.teams
        index == FindTeamIndex(teams, teamId, league)
        newIndex == IF direction = "up" THEN index - 1 ELSE index + 1
    IN IF index = 0 \/ newIndex < 1 \/ newIndex > Len(teams)
       THEN [item |-> item, defaults |-> defaults]
       ELSE LET swapped == [teams EXCEPT ![index] = teams[newIndex],
                                         ![newIndex] = teams[index]]
            IN [item |-> saveFavoriteTeams(swapped),
                defaults |-> IF read.isDefaults THEN swapped ELSE defaults]

\* teams of the league grids that are not defaults: one shares its id with
\* a default team of another league
OtherTeamX == FavTeam("368", "nba")
OtherTeamY == FavTeam("9", "nba")

FillerTeams == [i \in 1..6 |-> FavTeam(NumToString(100 + i), "mlb")]

\* the buttons the user presses
AddChoices == {OtherTeamX, OtherTeamY, SETTINGS_DEFAULT_TEAMS[1]}
RemoveChoices == {SETTINGS_DEFAULT_TEAMS[i] : i \in 1..4} \cup {OtherTeamY}
MoveChoices == {OtherTeamY, SETTINGS_DEFAULT_TEAMS[1]}

\* what the store holds when the settings page is opened
InitialFavoriteItems ==
    {ListAbsent, ListCorrupt, ListItem(<<>>), ListItem(<<SETTINGS_DEFAULT_TEAMS[1]>>),
     ListItem(SETTINGS_DEFAULT_TEAMS \o SubSeq(FillerTeams, 1, 5)),
     ListItem(SETTINGS_DEFAULT_TEAMS \o FillerTeams)}

FavoritesInit ==
    /\ EarlierIdle
    /\ stored = [pc |-> "idle"]
    /\ matchup = [pc |-> "idle"]
    /\ fetcher = [pc |-> "idle"]
    /\ cycles = [pc |-> "idle"]
    /\ \E item \in InitialFavoriteItems :
         favStore = [pc |-> "ready", item |-> item, defaults |-> SETTINGS_DEFAULT_TEAMS,
                     op |-> "none", team |-> FavTeam("", ""), ret |-> FALSE,
                     alert |-> FALSE, before |-> item,
                     seen |-> settingsGetFavoriteTeams(item, SETTINGS_DEFAULT_TEAMS).teams]

FavoritesUnchanged == UNCHANGED <<earlierVars, stored, matchup, fetcher, cycles>>

\* a team of a league grid or of the search results is clicked
AddFavoriteTeam ==
    /\ favStore.pc = "ready"
    /\ \E team \in AddChoices :
         LET r == addFavoriteTeam(favStore.item, favStore.defaults, team)
         IN favStore' = [favStore EXCEPT
                            !.item = r.item, !.defaults = r.defaults, !.op = "add",
                            !.team = team, !.ret = r.ret, !.alert = r.alert,
                            !.before = favStore.item,
                            !.seen = settingsGetFavoriteTeams(favStore.item,
                                                              favStore.defaults).teams]
    /\ FavoritesUnchanged

\* the remove button of a selected team
RemoveFavoriteTeam ==
    /\ favStore.pc = "ready"
    /\ \E team \in RemoveChoices :
         LET r == removeFavoriteTeam(favStore.item, favStore.defaults, team.id, team.league)
         IN favStore' = [favStore EXCEPT
                            !.item = r.item, !.defaults = r.defaults, !.op = "remove",
                            !.team = team, !.ret = FALSE, !.alert = FALSE,
                            !.before = favStore.item,
                            !.seen = settingsGetFavoriteTeams(favStore.item,
                                                              favStore.defaults).teams]
    /\ FavoritesUnchanged

\* the up and down buttons of a selected team
MoveFavoriteTeam ==
    /\ favStore.pc = "ready"
    /\ \E team \in MoveChoices, direction \in {"up", "down"} :
         LET r == moveFavoriteTeam(favStore.item, favStore.defaults,
                                   team.id, team.league, direction)
         IN favStore' = [favStore EXCEPT
                            !.item = r.item, !.defaults = r.defaults, !.op = "move",
                            !.team = team, !.ret = FALSE, !.alert = FALSE,
                            !.before = favStore.item,
                            !.seen = settingsGetFavoriteTeams(favStore.item,
                                                              favStore.defaults).teams]
    /\ FavoritesUnchanged

FavoritesNext ==
    \/ AddFavoriteTeam
    \/ RemoveFavoriteTeam
    \/ MoveFavoriteTeam

SpecFavorites == FavoritesInit /\ [][FavoritesNext]_vars

(***************************************************************************)
(* The matchup text of a big game (shared.js, app.js, calendar.js)         *)
(*                                                                         *)
(* A text is the sequence of its parts: left team, separator, right team.  *)
(***************************************************************************)

SOCCER_LEAGUES == <<"premier-league", "champions-league", "fa-cup", "league-cup">>

isSoccerLeague(league) == \E i \in 1..Len(SOCCER_LEAGUES) : SOCCER_LEAGUES[i] = league

\* renderBigGamesCard: left team, separator and right team of a game row
AppMatchupText(game) ==
    LET isSoccer == isSoccerLeague(game.league)
        leftTeam == IF isSoccer THEN game.homeTeam ELSE game.awayTeam
        rightTeam == IF isSoccer THEN game.awayTeam ELSE game.homeTeam
        separator == IF isSoccer THEN "v." ELSE "@"
    IN <<leftTeam, separator, rightTeam>>

\* fetchBigGamesForCalendar: the opponent text of the entry, which
\* renderGamesTable shows as the matchup of a big game
CalendarMatchupText(game) == <<game.homeTeam, "v.", game.awayTeam>>

MatchupLeagues ==
    {"premier-league", "champions-league", "fa-cup", "league-cup", "nba", "nhl", "mlb", "nfl"}

MatchupTeamNames == {"Arsenal", "Chelsea", "Lakers", "Celtics"}

MatchupInit ==
    /\ EarlierIdle
    /\ stored = [pc |-> "idle"]
    /\ favStore = [pc |-> "idle"]
    /\ fetcher = [pc |-> "idle"]
    /\ cycles = [pc |-> "idle"]
    /\ \E league \in MatchupLeagues,
          pair \in {q \in MatchupTeamNames \X MatchupTeamNames : q[1] # q[2]} :
         matchup = [pc |-> "pending", view |-> "none", text |-> <<>>,
                    game |-> [league |-> league, homeTeam |-> pair[1], awayTeam |-> pair[2]]]

MatchupUnchanged == UNCHANGED <<earlierVars, stored, favStore, fetcher, cycles>>

\* the by-team page renders the game in the Big Games card
RenderBigGameRow ==
    /\ matchup.pc = "pending"
    /\ matchup' = [matchup EXCEPT !.pc = "done", !.view = "by-team",
                                  !.text = AppMatchupText(matchup.game)]
    /\ MatchupUnchanged

\* the calendar page renders the game in a day's table
RenderCalendarRow ==
    /\ matchup.pc = "pending"
    /\ matchup' = [matchup EXCEPT !.pc = "done", !.view = "calendar",
                                  !.text = CalendarMatchupText(matchup.game)]
    /\ MatchupUnchanged

MatchupNext ==
    \/ RenderBigGameRow
    \/ RenderCalendarRow

SpecMatchup == MatchupInit /\ [][MatchupNext]_vars

(***************************************************************************)
(* The fetch functions that go through the response cache (app.js,         *)
(* shared.js): fetchScoreboardForDate, fetchPremierLeagueData and          *)
(* fetchNBATopTierTeams                                                    *)
(***************************************************************************)

FetchResult(value, error) == [value |-> value, error |-> error]

\* variant: every result is stored
UpstreamResult_cacheAll(fn, outcome, data) ==
    IF outcome = "ok" THEN [result |-> FetchResult(data, FALSE), cache |-> TRUE]
    ELSE IF fn = "premier-league" /\ outcome = "few-teams"
    THEN [result |-> FetchResult("none", FALSE), cache |-> TRUE]
    ELSE [result |-> FetchResult("none", TRUE), cache |-> TRUE]

\* what a function makes of the upstream answer after a cache miss, and
\* whether it calls setCache: "not-ok" is response.ok false, "throws" a
\* network error or timeout, "no-children" and "few-teams" are standings
\* answers without children and with fewer than five teams
UpstreamResult(fn, outcome, data) ==
    IF outcome = "ok" THEN [result |-> FetchResult(data, FALSE), cache |-> TRUE]
    ELSE IF fn = "premier-league" /\ outcome = "few-teams"
    THEN [result |-> FetchResult("none", FALSE), cache |-> FALSE]
    ELSE [result |-> FetchResult("none", TRUE), cache |-> FALSE]

FetchCacheKey(fn) ==
    IF fn = "scoreboard" THEN "scoreboard-soccer/eng.1-20260101"
    ELSE IF fn = "premier-league" THEN "standings-premier-league"
    ELSE "standings-nba"

\* one call of a function: getCached, and on a miss the fetch and setCache
CachedFetch(fn, store, now, outcome, data) ==
    LET cacheKey == FetchCacheKey(fn)
        cached == getCached(store, cacheKey, now)
        hit == cached.store[cacheKey].present
    IN IF hit
       THEN [ret |-> store[cacheKey].data, store |-> cached.store, hit |-> TRUE]
       ELSE LET r == UpstreamResult(fn, outcome, data)
            IN [ret |-> r.result, hit |-> FALSE,
                store |-> IF r.cache
                          THEN setCache(cached.store, cacheKey, r.result, DEFAULT_TTL, now)
                          ELSE cached.store]

FetchFunctions == {"scoreboard", "premier-league", "nba"}

FetchOutcomes(fn) ==
    IF fn = "premier-league" THEN {"ok", "not-ok", "throws", "no-children", "few-teams"}
    ELSE {"ok", "not-ok", "throws"}

FetchInit ==
    /\ EarlierIdle
    /\ stored = [pc |-> "idle"]
    /\ favStore = [pc |-> "idle"]
    /\ matchup = [pc |-> "idle"]
    /\ cycles = [pc |-> "idle"]
    /\ fetcher = [pc |-> "ready", now |-> 0, advances |-> 0,
                  store |-> [k \in {FetchCacheKey(fn) : fn \in FetchFunctions} |-> NoEntry],
                  op |-> "none", fn |-> "none", outcome |-> "none", hit |-> FALSE,
                  created |-> FALSE, ret |-> FetchResult("none", FALSE)]

FetchUnchanged == UNCHANGED <<earlierVars, stored, favStore, matchup, cycles>>

\* a refresh cycle calls one of the functions; the upstream answers
CallCachedFetch ==
    /\ fetcher.pc = "ready"
    /\ \E fn \in FetchFunctions, data \in {"d1", "d2"} :
         \E outcome \in FetchOutcomes(fn) :
            LET r == CachedFetch(fn, fetcher.store, fetcher.now, outcome, data)
                k == FetchCacheKey(fn)
            IN fetcher' = [fetcher EXCEPT
                              !.store = r.store, !.op = "fetch", !.fn = fn,
                              !.outcome = outcome, !.hit = r.hit, !.ret = r.ret,
                              !.created = r.store[k].present
                                          /\ r.store[k] # fetcher.store[k]]
    /\ FetchUnchanged

\* the refresh button: clearAllCache() before loadSchedules()
ClearFetchCache ==
    /\ fetcher.pc = "ready"
    /\ fetcher' = [fetcher EXCEPT !.store = clearAllCache(fetcher.store),
                                  !.op = "clear", !.fn = "none", !.outcome = "none",
                                  !.hit = FALSE, !.created = FALSE,
                                  !.ret = FetchResult("none", FALSE)]
    /\ FetchUnchanged

\* a day passes
FetchDayPasses ==
    /\ fetcher.pc = "ready"
    /\ fetcher.advances < MaxAdvances
    /\ fetcher' = [fetcher EXCEPT !.now = fetcher.now + DEFAULT_TTL,
                                  !.advances = fetcher.advances + 1,
                                  !.op = "tick", !.fn = "none", !.outcome = "none",
                                  !.hit = FALSE, !.created = FALSE,
                                  !.ret = FetchResult("none", FALSE)]
    /\ FetchUnchanged

FetchNext ==
    \/ CallCachedFetch
    \/ ClearFetchCache
    \/ FetchDayPasses

SpecFetch == FetchInit /\ [][FetchNext]_vars

(***************************************************************************)
(* Overlapping refresh cycles of the By Team page (app.js): loadSchedules  *)
(* split at its await, with the read caches of app.js and shared.js        *)
(***************************************************************************)

\* cycles of one page that may be in flight together
MaxOverlap == 2

CycleIds == 1..MaxOverlap

\* getShowPreseason(): overlay is watchParty.showPreseason ("undefined"
\* without a watch party), cache is _showPreseasonCache, item the stored text
getShowPreseason(overlay, cache, item) ==
    IF overlay # "undefined" THEN [ret |-> overlay, cache |-> cache]
    ELSE IF cache # "null" THEN [ret |-> cache, cache |-> cache]
    ELSE LET v == IF item = "absent" THEN "true"
                  ELSE IF item = "true" THEN "true" ELSE "false"
         IN [ret |-> v, cache |-> v]

\* getFavoriteTeams() of app.js with its cache
getFavoriteTeamsCached(cache, item) ==
    IF ~cache.isNull THEN [ret |-> cache.list, cache |-> cache]
    ELSE [ret |-> getFavoriteTeams(item), cache |-> CachedList(getFavoriteTeams(item))]

\* where a read is answered from
ReadSource(overlay, cacheIsNull) ==
    IF overlay THEN "overlay" ELSE IF cacheIsNull THEN "store" ELSE "cache"

\* the first read of a kind in a cycle keeps its source
FirstRead(sofar, source) == IF sofar = "none" THEN source ELSE sofar

NoCycle == [pc |-> "idle", firstFav |-> "none", firstMW |-> "none",
            firstBGS |-> "none", firstSP |-> "none"]

NoCycleOp == [op |-> "none", c |-> 0, ids |-> <<>>, gameId |-> "none",
              read |-> <<>>, fresh |-> <<>>, before |-> <<>>, overlapped |-> FALSE]

\* the snapshot of a share link as the page holds it
CycleWatchParty ==
    WatchParty(TRUE, <<[id |-> StrId("2"), sport |-> "soccer"]>>,
               TRUE, DEFAULT_BIG_GAME_SETTINGS.perCompetition, TRUE, <<"e1">>)

\* a stored version-2 document, which the first read migrates and saves;
\* CyclesInit starts either from an empty localStorage or from one where the
\* page has been used: this document, a must-watch id and preseason off
CycleOldSettings ==
    JSONstringify(SettingsDoc(FALSE, <<>>, TRUE,
                              [c \in CompetitionKeys |-> <<"rivalry">>], 2))

CyclesInit ==
    /\ EarlierIdle
    /\ stored = [pc |-> "idle"]
    /\ favStore = [pc |-> "idle"]
    /\ matchup = [pc |-> "idle"]
    /\ fetcher = [pc |-> "idle"]
    /\ \E session \in {NoWatchParty, CycleWatchParty},
          used \in BOOLEAN :
        LET mw == IF used THEN ListItem(<<"old">>) ELSE ListAbsent
            bgs == IF used THEN CycleOldSettings ELSE ItemAbsent
            sp == IF used THEN "false" ELSE "absent"
            fav == ListAbsent
        IN
        cycles = [pc |-> "page", mode |-> NoWatchParty, session |-> session,
                  mwItem |-> mw, mwCache |-> NullList,
                  bgsItem |-> bgs, bgsCache |-> NullDoc,
                  spItem |-> sp, spCache |-> "null",
                  favItem |-> fav, favCache |-> NullList,
                  cyc |-> [c \in CycleIds |-> NoCycle],
                  rendered |-> {}, last |-> NoCycleOp]

CyclesUnchanged == UNCHANGED <<earlierVars, stored, favStore, matchup, fetcher>>

\* the page state the must-watch functions work on
CycleState == [mode |-> cycles.mode, cache |-> cycles.mwCache, item |-> cycles.mwItem]

\* loadSchedules() up to its await: invalidateAppCache(), watchPartyMode,
\* the teams to fetch; pg is the page state the call starts from
BeginCycle(pg, c, op) ==
    LET mode == IF ~pg.mode.present THEN pg.session ELSE pg.mode
        readsFavorites == ~(mode.present /\ mode.hasTeams)
        fav == getFavoriteTeamsCached(NullList, pg.favItem)
    IN [pg EXCEPT !.mode = mode,
                  !.mwCache = NullList, !.bgsCache = NullDoc, !.spCache = "null",
                  !.favCache = IF readsFavorites THEN fav.cache ELSE NullList,
                  !.cyc[c] = [NoCycle EXCEPT
                                 !.pc = "awaiting",
                                 !.firstFav = IF readsFavorites THEN "store" ELSE "none"],
                  !.last = [op EXCEPT !.c = c]]

\* page load, the periodic timer or the refresh button starts a cycle
StartCycle ==
    /\ cycles.pc = "page"
    /\ \E c \in CycleIds :
        /\ cycles.cyc[c].pc \in {"idle", "done"}
        /\ cycles' = BeginCycle(cycles, c, [NoCycleOp EXCEPT !.op = "start"])
    /\ CyclesUnchanged

\* a checkbox of a rendered game changes: toggleMustWatch(gameId), which
\* ends by calling loadSchedules()
ToggleDuringCycles ==
    /\ cycles.pc = "page"
    /\ ~cycles.mode.present
    /\ \E gameId \in cycles.rendered, c \in CycleIds :
        /\ cycles.cyc[c].pc \in {"idle", "done"}
        /\ LET g == getMustWatchGames(cycles.mode, cycles.mwCache, cycles.mwItem)
               fresh == getMustWatchGames(NoWatchParty, NullList, cycles.mwItem)
               st == toggleMustWatch(CycleState, gameId)
               pg == [cycles EXCEPT !.mwCache = st.cache, !.mwItem = st.item]
           IN cycles' = BeginCycle(pg, c,
                            [NoCycleOp EXCEPT !.op = "toggle", !.gameId = gameId,
                                              !.read = g.ret, !.fresh = fresh.ret])
    /\ CyclesUnchanged

\* the scoreboards of fetchBigGames have arrived: each event is categorized
\* with the favorite ids of its sport and the big-game settings
ProcessBigGames ==
    /\ cycles.pc = "page"
    /\ \E c \in CycleIds :
        /\ cycles.cyc[c].pc = "awaiting"
        /\ LET fav == getFavoriteTeamsCached(cycles.favCache, cycles.favItem)
               bgs == getBigGameSettings(cycles.session, cycles.bgsCache, cycles.bgsItem)
           IN cycles' = [cycles EXCEPT
                  !.favCache = fav.cache,
                  !.bgsCache = bgs.cache, !.bgsItem = bgs.item,
                  !.cyc[c].pc = "processed",
                  !.cyc[c].firstFav =
                      FirstRead(@, ReadSource(FALSE, cycles.favCache.isNull)),
                  !.cyc[c].firstBGS =
                      FirstRead(@, ReadSource(WatchPartyBigGamesActive(cycles.session),
                                              cycles.bgsCache.isNull)),
                  !.last = [NoCycleOp EXCEPT !.op = "process", !.c = c]]
    /\ CyclesUnchanged

\* the games a cycle may have loaded: team games and big games
CycleTeamGameIds == {<<>>, <<"t1">>}

CycleBigGames ==
    {<<>>} \cup {<<[id |-> "e1", date |-> d, involvesFavorite |-> f]>> :
                    d \in {1, BIG_GAMES_WINDOW_DAYS + 1}, f \in BOOLEAN}

\* the rest of loadSchedules() after its await, in one piece: parseGames,
\* allGameIds, cleanupOldMustWatch, the cards with the auto-marking
FinishCycle ==
    /\ cycles.pc = "page"
    /\ \E c \in CycleIds, teamGameIds \in CycleTeamGameIds, bigGames \in CycleBigGames :
        /\ cycles.cyc[c].pc = "processed"
        /\ LET overlaySP == IF cycles.session.present THEN "false" ELSE "undefined"
               sp == getShowPreseason(overlaySP, cycles.spCache, cycles.spItem)
               allGameIds == teamGameIds \o GameIds(bigGames)
               first == getMustWatchGames(cycles.mode, cycles.mwCache, cycles.mwItem)
               st2 == cleanupOldMustWatch(CycleState, allGameIds)
               next7DaysBigGames == Next7Days(bigGames)
               st3 == AutoMark(st2, next7DaysBigGames)
               shown == getMustWatchGames(st3.mode, st3.cache, st3.item)
           IN cycles' = [cycles EXCEPT
                  !.spCache = sp.cache,
                  !.mwCache = IF allGameIds = <<>> /\ cycles.mode.present
                              THEN st3.cache ELSE shown.cache,
                  !.mwItem = st3.item,
                  !.mode = st3.mode,
                  !.cyc[c].pc = "done",
                  !.cyc[c].firstSP =
                      FirstRead(@, ReadSource(overlaySP # "undefined",
                                              cycles.spCache = "null")),
                  !.cyc[c].firstMW =
                      IF allGameIds = <<>> /\ cycles.mode.present THEN @
                      ELSE FirstRead(@, ReadSource(first.overlay, cycles.mwCache.isNull)),
                  !.rendered = SeqToSet(teamGameIds)
                               \cup {next7DaysBigGames[i].id : i \in
                                       {j \in 1..Len(next7DaysBigGames) :
                                            ~next7DaysBigGames[j].involvesFavorite}},
                  !.last = [NoCycleOp EXCEPT
                               !.op = "finish", !.c = c, !.ids = allGameIds,
                               !.before = first.ret,
                               !.overlapped = \E d \in CycleIds \ {c} :
                                   cycles.cyc[d].pc \in {"awaiting", "processed"}]]
    /\ CyclesUnchanged

\* the share button: reads the favorites and the two settings through
\* their caches and the must-watch list from localStorage directly
ShareDuringCycles ==
    /\ cycles.pc = "page"
    /\ cycles.last.op # "share"
    /\ LET overlaySP == IF cycles.session.present THEN "false" ELSE "undefined"
           fav == getFavoriteTeamsCached(cycles.favCache, cycles.favItem)
           bgs == getBigGameSettings(cycles.session, cycles.bgsCache, cycles.bgsItem)
           sp == getShowPreseason(overlaySP, cycles.spCache, cycles.spItem)
       IN cycles' = [cycles EXCEPT
              !.favCache = fav.cache,
              !.bgsCache = bgs.cache, !.bgsItem = bgs.item,
              !.spCache = sp.cache,
              !.last = [NoCycleOp EXCEPT !.op = "share"]]
    /\ CyclesUnchanged

CyclesNext ==
    \/ StartCycle
    \/ ToggleDuringCycles
    \/ ShareDuringCycles
    \/ ProcessBigGames
    \/ FinishCycle

SpecCycles == CyclesInit /\ [][CyclesNext]_vars

(***************************************************************************)
(* Claims about the categorization functions (checked under SpecCat)       *)
(***************************************************************************)

\* C1: for every ordered pair of the four team tiers, categorizeGame returns
\* the category of the first matching rule in the order house-divided (both
\* favorites), playoff-preview (top-tier vs thinkin-supey), rob-lowe (both
\* top-tier), measuring-stick (ya-never-know vs top-tier), beat-em-off
\* (favorite vs none), otherwise null; (top-tier, thinkin-supey) in either
\* order is playoff-preview and never rob-lowe.
C1_FirstMatchingRule ==
    LET h == gameCall.homeTeamCategory
        a == gameCall.awayTeamCategory
        fav(t) == t \in {"thinkin-supey", "ya-never-know"}
        oneEach(x, y) == (h = x /\ a = y) \/ (h = y /\ a = x)
        expected ==
            CASE fav(h) /\ fav(a) -> "house-divided"
              [] ~(fav(h) /\ fav(a)) /\ oneEach("top-tier", "thinkin-supey") -> "playoff-preview"
              [] h = "top-tier" /\ a = "top-tier" -> "rob-lowe"
              [] oneEach("ya-never-know", "top-tier") -> "measuring-stick"
              [] (fav(h) /\ a = NULL) \/ (fav(a) /\ h = NULL) -> "beat-em-off"
              [] OTHER -> NULL
    IN (gameCall.pc = "done" /\ h \in TeamTiers /\ a \in TeamTiers) =>
          /\ gameCall.result = expected
          /\ oneEach("top-tier", "thinkin-supey") => gameCall.result = "playoff-preview"

\* C1 witness: a top-tier side against a thinkin-supey side was categorized
C1_Witness ==
    /\ gameCall.pc = "done"
    /\ gameCall.homeTeamCategory = "thinkin-supey"
    /\ gameCall.awayTeamCategory = "top-tier"
    /\ gameCall.result = "playoff-preview"

\* C2: categorizeTeam returns thinkin-supey when the id (compared as a
\* string) is in both lists, ya-never-know when only in favoriteIds, top-tier
\* when only in topTierIds, and null when in neither.
C2_TeamTierTable ==
    LET idStr == String(teamCall.teamId)
        inTop == \E i \in 1..Len(teamCall.topTierTeamIds) :
                    String(teamCall.topTierTeamIds[i]) = idStr
        inFav == \E i \in 1..Len(teamCall.favoriteTeamIds) :
                    String(teamCall.favoriteTeamIds[i]) = idStr
    IN teamCall.pc = "done" =>
          /\ (inTop /\ inFav) => teamCall.result = "thinkin-supey"
          /\ (~inTop /\ inFav) => teamCall.result = "ya-never-know"
          /\ (inTop /\ ~inFav) => teamCall.result = "top-tier"
          /\ (~inTop /\ ~inFav) => teamCall.result = NULL

\* C2 witness: a numeric id found in both lists, where it is kept as a string
C2_Witness ==
    /\ teamCall.pc = "done"
    /\ teamCall.teamId = NumId(1)
    /\ teamCall.topTierTeamIds = <<StrId("2"), StrId("1")>>
    /\ teamCall.favoriteTeamIds = <<StrId("1")>>
    /\ teamCall.result = "thinkin-supey"

\* C3: categorizeGame is symmetric: swapping the home and away team
\* categories gives the same game category.
C3_Symmetric ==
    gameCall.pc = "done" =>
        gameCall.result = categorizeGame(gameCall.awayTeamCategory, gameCall.homeTeamCategory)

\* C3 witness: a ya-never-know home side against a top-tier away side
C3_Witness ==
    /\ gameCall.pc = "done"
    /\ gameCall.homeTeamCategory = "top-tier"
    /\ gameCall.awayTeamCategory = "ya-never-know"
    /\ gameCall.result = "measuring-stick"

(***************************************************************************)
(* Claims about the settings store (checked under Spec)                    *)
(***************************************************************************)

\* the last operation was a getBigGameSettings() call that read localStorage
\* (no watch-party overlay, empty in-memory cache)
LoadedFromStore == last.op = "load" /\ ~last.wp /\ ~last.cacheHit

\* ... and found a document with a perCompetition map
LoadedVersioned ==
    LoadedFromStore /\ last.before.kind = "json" /\ last.before.doc.hasPC

\* ... and found a root-level enabledCategories list and no perCompetition
LoadedLegacy ==
    /\ LoadedFromStore /\ last.before.kind = "json"
    /\ last.before.doc.hasEC /\ ~last.before.doc.hasPC

\* C4: loading a stored versioned document whose schemaVersion is 1 or
\* missing returns a document stamped with SETTINGS_SCHEMA_VERSION in which
\* every generic competition that was present has 'playoff-preview', every
\* competition that was missing holds its full default set, and localStorage
\* is written exactly once during the load.
C4_MigrateFromV1 ==
    (LoadedVersioned /\ last.before.doc.schemaVersion \in {0, 1}) =>
        /\ last.ret.schemaVersion = SETTINGS_SCHEMA_VERSION
        /\ \A c \in CompetitionKeys :
              /\ c \in DOMAIN last.ret.perCompetition
              /\ (c \in DOMAIN last.before.doc.perCompetition /\ c # "champions-league")
                    => Includes(last.ret.perCompetition[c], "playoff-preview")
              /\ c \notin DOMAIN last.before.doc.perCompetition
                    => last.ret.perCompetition[c] = DefaultCategories(c)
        /\ last.writes = 1

\* C4 witness: {schemaVersion: 1, perCompetition: {premier-league: ['rob-lowe']}}
\* was loaded
C4_Witness ==
    /\ LoadedVersioned
    /\ last.before.doc.schemaVersion = 1
    /\ last.before.doc.perCompetition = [c \in {"premier-league"} |-> <<"rob-lowe">>]
    /\ last.ret.perCompetition["premier-league"] = <<"rob-lowe", "playoff-preview">>
    /\ last.ret.perCompetition["nba"] = ALL_CATEGORIES
    /\ last.writes = 1

\* C5: a second getBigGameSettings() made after invalidateSettingsCache()
\* returns a document equal to the first call's and writes nothing; a stored
\* document at the current version with every competition present is never
\* rewritten by a load.
C5_LoadIdempotent ==
    /\ reload.phase = "reloaded" =>
          /\ last.ret = reload.first
          /\ last.writes = 0
          /\ localSettings = last.before
    /\ (/\ LoadedVersioned
        /\ last.before.doc.schemaVersion = SETTINGS_SCHEMA_VERSION
        /\ CompetitionKeys \subseteq DOMAIN last.before.doc.perCompetition) =>
          /\ last.writes = 0
          /\ localSettings = last.before

\* C5 witness: the first load migrated a version-1 document, the second load
\* read what the first one stored
C5_Witness ==
    /\ reload.phase = "reloaded"
    /\ reload.origin.kind = "json"
    /\ reload.origin.doc.hasPC
    /\ reload.origin.doc.schemaVersion = 1
    /\ reload.origin # last.before
    /\ LoadedVersioned

\* C6 as stated: loading a legacy document yields a non-empty list for every
\* key of COMPETITIONS, for every legacy list, stamps the current version and
\* stores the document.
C6_LegacyNonEmpty ==
    LoadedLegacy =>
        /\ \A c \in CompetitionKeys :
              /\ c \in DOMAIN last.ret.perCompetition
              /\ last.ret.perCompetition[c] # <<>>
        /\ last.ret.schemaVersion = SETTINGS_SCHEMA_VERSION
        /\ localSettings = JSONstringify(last.ret)

\* C6 amended: loading a legacy document gives every key of COMPETITIONS a
\* copy of the legacy list (so the lists are non-empty exactly when the
\* legacy list is), stamps the current version and stores the document.
C6_LegacyCopied ==
    LoadedLegacy =>
        /\ \A c \in CompetitionKeys :
              /\ c \in DOMAIN last.ret.perCompetition
              /\ last.ret.perCompetition[c] = last.before.doc.enabledCategories
        /\ last.ret.schemaVersion = SETTINGS_SCHEMA_VERSION
        /\ last.writes = 1
        /\ localSettings = JSONstringify(last.ret)

\* C6 witness: a legacy document with a non-empty list was loaded
C6_Witness ==
    /\ LoadedLegacy
    /\ last.before.doc.enabledCategories = <<"rob-lowe">>
    /\ last.ret.perCompetition["nhl"] = <<"rob-lowe">>
    /\ localSettings.kind = "json"
    /\ localSettings.doc.hasPC

\* C7: after every getBigGameSettings() call, with or without a watch-party
\* overlay, the returned perCompetition map has an entry for every key of
\* COMPETITIONS.
C7_AllCompetitionsPresent ==
    last.op = "load" => CompetitionKeys \subseteq DOMAIN last.ret.perCompetition

\* categories of the current schema (generic or CL)
SchemaCategories == SeqToSet(ALL_CATEGORIES) \cup SeqToSet(CL_CATEGORIES)

\* C8 as stated: loading a versioned document below the current version
\* keeps, for every competition, each stored category that has not been
\* retired from the schema entirely.
C8_KeepsSchemaCategories ==
    (LoadedVersioned /\ last.before.doc.schemaVersion < SETTINGS_SCHEMA_VERSION) =>
        \A c \in DOMAIN last.before.doc.perCompetition :
            \A cat \in SeqToSet(last.before.doc.perCompetition[c]) \cap SchemaCategories :
                Includes(last.ret.perCompetition[c], cat)

\* C8 amended: loading a versioned document below the current version keeps,
\* for every competition, each stored category that is valid for that
\* competition's scheme (the generic five, or the cl-* four for
\* champions-league, whose list is replaced by CL_CATEGORIES).
C8_KeepsCompetitionCategories ==
    (LoadedVersioned /\ last.before.doc.schemaVersion < SETTINGS_SCHEMA_VERSION) =>
        /\ \A c \in DOMAIN last.before.doc.perCompetition :
              \A cat \in SeqToSet(last.before.doc.perCompetition[c])
                            \cap SeqToSet(DefaultCategories(c)) :
                  Includes(last.ret.perCompetition[c], cat)
        /\ last.ret.perCompetition["champions-league"] = CL_CATEGORIES

\* C8 witness: a version-2 document with customized premier-league and
\* champions-league lists was migrated
C8_Witness ==
    /\ LoadedVersioned
    /\ last.before.doc.schemaVersion = 2
    /\ "premier-league" \in DOMAIN last.before.doc.perCompetition
    /\ "champions-league" \in DOMAIN last.before.doc.perCompetition
    /\ last.before.doc.perCompetition["premier-league"] = <<"rob-lowe">>
    /\ last.before.doc.perCompetition["champions-league"] = <<"rob-lowe">>
    /\ last.ret.perCompetition["premier-league"] = <<"rob-lowe">>

\* C9: with no stored settings document, getBigGameSettings() returns the
\* current-version default document and writes it to localStorage.
C9_DefaultPersisted ==
    (LoadedFromStore /\ last.before.kind = "absent") =>
        /\ last.ret = DEFAULT_BIG_GAME_SETTINGS
        /\ localSettings = JSONstringify(DEFAULT_BIG_GAME_SETTINGS)

\* the schemaVersion recorded in localStorage (0: none recorded)
RecordedVersion(item) == IF item.kind = "json" THEN item.doc.schemaVersion ELSE 0

\* C10: across loads, toggles and cache invalidations the schemaVersion
\* recorded in localStorage never decreases.
C10_VersionMonotonic ==
    [][RecordedVersion(localSettings') >= RecordedVersion(localSettings)]_vars

\* C10 witness: a toggle loaded a version-2 document and stored it again
C10_Witness ==
    /\ last.op = "toggle"
    /\ last.before.kind = "json"
    /\ last.before.doc.schemaVersion = 2
    /\ localSettings.kind = "json"
    /\ localSettings.doc.schemaVersion = SETTINGS_SCHEMA_VERSION
    /\ toggles = 1

(***************************************************************************)
(* Claims about watch-party mode                                           *)
(***************************************************************************)

\* C11: while a watch-party session with a bigGames map is active, a load
\* returns exactly the overlay's map whatever the local document and the
\* cache hold, and a save made in this mode leaves the local persistent
\* settings document as it was.
C11_OverlayReadOnly ==
    /\ (last.op = "load" /\ last.wp) =>
          /\ last.ret.perCompetition = watchPartySession.bigGames
          /\ last.writes = 0
          /\ localSettings = last.before
    /\ (last.op = "wpsave") => localSettings = last.before

\* C12: while watch-party mode is active no step of the page (refresh cycle
\* with cleanup and auto-marking, must-watch toggle) writes the local
\* must-watch list: it still holds what it held when the overlay became
\* active.
C12_LocalMustWatchKept ==
    page.active => localMustWatch = page.mustWatchAtActivation

\* C13: in watch-party mode the favorites used by fetchBigGames are the
\* overlay's: two runs under the same overlay and the same upstream answers
\* that differ only in the locally stored favorite teams return the same
\* games (same involvesFavorite flags, team tiers and game categories).
C13_LocalFavoritesDoNotMatter ==
    (pipeline.pc = "app" /\ pipeline.watchParty.present) =>
        pipeline.result = pipeline.otherResult

(***************************************************************************)
(* Claims about the big-games pipelines (checked under SpecPipeline)       *)
(***************************************************************************)

\* the drawn event has exactly two competitors, one home and one away
PipeWellFormed ==
    /\ Len(pipeline.event.competitors) = 2
    /\ FindHomeAway(pipeline.event.competitors, "home") # NoCompetitor
    /\ FindHomeAway(pipeline.event.competitors, "away") # NoCompetitor

PipeConfig == BIG_GAMES_CONFIG[pipeline.k]

PipeIncluded == \E i \in 1..Len(pipeline.result.games) :
                    pipeline.result.games[i].id = pipeline.event.id

\* categorizeGame of the tiers of the home and the away team
PipeCategory ==
    LET favoriteTeamIds == getFavoriteTeamIdsBySport(getFavoriteTeams(pipeline.favorites),
                                                     PipeConfig.sport)
    IN categorizeGame(
           categorizeTeam(FindHomeAway(pipeline.event.competitors, "home").id,
                          pipeline.topTierTeamIds, favoriteTeamIds),
           categorizeTeam(FindHomeAway(pipeline.event.competitors, "away").id,
                          pipeline.topTierTeamIds, favoriteTeamIds))

\* the category is in the competition's list of the effective settings
PipeCategoryEnabled ==
    /\ PipeCategory # NULL
    /\ PipeConfig.league \in DOMAIN PipeSettings(pipeline).perCompetition
    /\ \E i \in 1..Len(PipeSettings(pipeline).perCompetition[PipeConfig.league]) :
          PipeSettings(pipeline).perCompetition[PipeConfig.league][i] = PipeCategory

\* C18: an uncompleted game with one home and one away side is
\* in the result of fetchBigGames iff its game category is not none and is
\* enabled for its competition in the effective settings.
C18_IncludedIffCategoryEnabled ==
    (pipeline.pc = "app" /\ PipeWellFormed /\ ~pipeline.event.completed) =>
        (PipeIncluded <=> PipeCategoryEnabled)

\* the user has a favorite of the competition's sport with this id
PipeFavoriteOfSport(teamId) ==
    LET favoriteTeams == getFavoriteTeams(pipeline.favorites)
    IN \E i \in 1..Len(favoriteTeams) :
          /\ favoriteTeams[i].sport = PipeConfig.sport
          /\ String(favoriteTeams[i].id) = String(teamId)

\* the run got as far as the involves-favorite test for the drawn event
PipeReachedFavoriteTest ==
    \/ /\ pipeline.pc = "app"
       /\ Qualifies(PipeConfig, pipeline.event, pipeline.topTierTeamIds,
                    pipeline.allEnglishTeamIds)
       /\ ~pipeline.event.completed
    \/ /\ pipeline.pc = "calendar"
       /\ CalendarQualifies(PipeConfig, pipeline.event, pipeline.topTierTeamIds,
                            pipeline.allEnglishTeamIds)

\* the run got as far as classifying the two teams
PipeReachedTiers ==
    /\ PipeReachedFavoriteTest
    /\ ~pipeline.event.completed
    /\ pipeline.pc = "calendar" => ~pipeline.involvesFavorite

\* C19: in both pipelines a team of a competition of sport S counts as a
\* favorite, in the involves-favorite test and in its tier, only if the
\* user has a favorite with that id whose sport is S.
C19_FavoriteOnlyWithinSport ==
    /\ (PipeReachedFavoriteTest /\ pipeline.involvesFavorite) =>
          \E c \in 1..Len(pipeline.event.competitors) :
              PipeFavoriteOfSport(pipeline.event.competitors[c].id)
    /\ PipeReachedTiers =>
          \A c \in 1..Len(pipeline.event.competitors) :
              pipeline.tiers[c] \in {TEAM_LEVELS.THINKIN_SUPEY, TEAM_LEVELS.YA_NEVER_KNOW}
                  => PipeFavoriteOfSport(pipeline.event.competitors[c].id)

(***************************************************************************)
(* Claims about fetch batches (checked under SpecBatch)                    *)
(***************************************************************************)

BatchTeamDone == batch.pc = "done" /\ batch.kind = "team"
BatchBigDone == batch.pc = "done" /\ batch.kind = "big"

\* the date lookups of a per-team batch that failed
BatchFailedDates ==
    {i \in 1..Len(batch.outcomes) : batch.outcomes[i].kind \in {"not-ok", "throws"}}

\* the ids of the team's games that the lookups that did not fail returned
BatchTeamExpected ==
    LET kept == UNION {SeqToSet(batch.outcomes[i].events) :
                          i \in (1..Len(batch.outcomes)) \ BatchFailedDates}
    IN {e.id : e \in {x \in kept : \E c \in 1..Len(x.competitors) :
                                      x.competitors[c].id = batch.team.id}}

BatchSoccer == {"premier-league", "fa-cup", "league-cup"}

\* competitions whose standings were fetched and whose games are enabled
BatchBigListed ==
    (IF batch.standingsFailed["pl"] THEN {} ELSE BatchSoccer)
    \cup (IF batch.standingsFailed["nba"] THEN {} ELSE {"nba"})
    \cup (IF batch.standingsFailed["nhl"] THEN {} ELSE {"nhl"})

BatchBigAnyFailure ==
    \/ \E c \in CompetitionKeys : \E d \in 1..batch.dates : batch.failed[c][d]
    \/ \E x \in DOMAIN batch.standingsFailed : batch.standingsFailed[x]

\* the failed lookups contribute nothing and the others are all kept
BatchKeepsTheRest ==
    /\ BatchTeamDone =>
          SeqToSet(GameIds(batch.result.events)) = BatchTeamExpected
    /\ BatchBigDone =>
          \A c \in BatchBigListed : \A d \in 1..batch.dates :
              (BatchBigEvent(c, d).id \in SeqToSet(GameIds(batch.result.games)))
                  <=> ~batch.failed[c][d]

\* C20: when one or more lookups of a batch fail, the batch
\* still returns the results of the others, the failed ones count as empty
\* and the aggregate's error flag is set, in fetchTeamGamesFromScoreboard
\* and in fetchBigGames alike.
C20_AnyFailureFlagged ==
    /\ BatchKeepsTheRest
    /\ (BatchTeamDone /\ BatchFailedDates # {}) => batch.result.error
    /\ (BatchBigDone /\ BatchBigAnyFailure) => batch.result.error


(***************************************************************************)
(* Claims about the response cache (checked under SpecCache)               *)
(***************************************************************************)

\* C17: a read of a key that setCache(key, v, ttl) wrote at time t0, made
\* at time t, returns v iff t - t0 < ttl; when t - t0 >= ttl it returns null
\* and the entry is gone from the store afterwards.
C17_FreshIffWithinTtl ==
    (responseCache.pc = "ready" /\ responseCache.op = "get" /\ responseCache.before.present) =>
        LET t0 == responseCache.before.timestamp
            ttl == responseCache.before.ttl
            age == responseCache.now - t0
        IN /\ (responseCache.ret = responseCache.before.data) <=> (age < ttl)
           /\ (age >= ttl) =>
                 /\ responseCache.ret = NULL
                 /\ ~responseCache.store[responseCache.key].present

(***************************************************************************)
(* Claims about watch-party sharing (checked under SpecShare)              *)
(***************************************************************************)

\* C15: for every well-formed snapshot x, with team names of arbitrary
\* text, encodeWatchParty(x) returns a token and decodeWatchParty of that
\* token equals x.
C15_EncodeDecodeRoundTrip ==
    (share.pc = "ready" /\ share.op = "share") =>
        LET token == encodeWatchParty(share.input)
        IN /\ ~token.isNull
           /\ decodeWatchParty(token.text) = share.input

\* the wp parameter as URLSearchParams gives it to the page
ShareUrlToken == PlusToSpace(share.search.wp)

\* the URL carries a decodable token: a wp parameter that decodeWatchParty
\* turns into a snapshot
ShareUrlDecodable ==
    /\ share.search.present
    /\ decodeWatchParty(ShareUrlToken).t = "snapshot"

\* C14: getActiveWatchParty returns the session document when one exists
\* and ignores the URL token; with no session document and a decodable URL
\* token it stores the decoded snapshot in the session store and returns it,
\* and every later call of the session returns that snapshot whatever the
\* URL carries; with neither it returns null.
C14_SessionBeforeUrl ==
    (share.pc = "ready" /\ share.op = "getActive") =>
        /\ share.beforeItem.present =>
              /\ share.beforeItem.text = JSONstringifyText(share.ret)
              /\ share.sessionItem = share.beforeItem
        /\ (~share.beforeItem.present /\ ShareUrlDecodable) =>
              /\ share.ret = decodeWatchParty(ShareUrlToken)
              /\ share.sessionItem.present
              /\ share.sessionItem.text = JSONstringifyText(share.ret)
        /\ share.adopted # JNull => share.ret = share.adopted
        /\ (~share.beforeItem.present /\ ~share.search.present) =>
              /\ share.ret = JNull
              /\ ~share.sessionItem.present

\* a later call returned the adopted snapshot although the URL no longer
\* carries a token
C14_Witness ==
    /\ share.pc = "ready" /\ share.op = "getActive"
    /\ share.beforeItem.present
    /\ ~share.search.present
    /\ share.ret.t = "snapshot"
    /\ share.ret = share.adopted

\* the token is malformed: it is not base64 text, or the text it holds is
\* not JSON
ShareUrlMalformed ==
    /\ share.search.present
    /\ \/ ~atob(ShareUrlToken).ok
       \/ ~JSONparseText(atob(ShareUrlToken).text).ok

StoredMalformed(kind) == kind \in {"corrupt", "null", "number", "object"}

\* C21: for each persisted document, a stored value that is corrupt JSON or
\* valid JSON of an unexpected shape is treated as absent: the reader gives
\* its default, and the refresh cycle that reads it renders the page instead
\* of ending in the error state.
C21_MalformedTreatedAsAbsent ==
    (stored.pc = "done") =>
        /\ \A d \in DOMAIN stored.docs :
              StoredMalformed(stored.docs[d]) => stored.result[d] = "default"
        /\ stored.result.outcome = "rendered"

(***************************************************************************)
(* Claims about the favorite-team list (checked under SpecFavorites)       *)
(***************************************************************************)

\* the list in the store (empty when nothing usable is stored)
FavStoredList == IF favStore.item.kind = "json" THEN favStore.item.list ELSE <<>>

\* C22: the stored list never has more than MAX_TEAMS entries, and
\* addFavoriteTeam on a list that already has MAX_TEAMS entries shows the
\* rejection, returns false and leaves the stored list as it was.
C22_AtMostTenFavorites ==
    (favStore.pc = "ready") =>
        /\ Len(FavStoredList) <= MAX_TEAMS
        /\ (favStore.op = "add" /\ Len(favStore.seen) >= MAX_TEAMS) =>
              /\ ~favStore.ret
              /\ favStore.alert
              /\ favStore.item = favStore.before

\* an add was rejected on a full list
C22_Witness ==
    /\ favStore.pc = "ready" /\ favStore.op = "add"
    /\ Len(favStore.seen) = MAX_TEAMS
    /\ favStore.alert

\* C23: no two entries of the stored list have the same (id, league);
\* adding a team whose pair is present returns false and leaves the list
\* unchanged.
C23_UniqueIdLeague ==
    (favStore.pc = "ready") =>
        /\ \A i, j \in 1..Len(FavStoredList) :
              (FavStoredList[i].id = FavStoredList[j].id
               /\ FavStoredList[i].league = FavStoredList[j].league) => i = j
        /\ (favStore.op = "add"
            /\ HasTeam(favStore.seen, favStore.team.id, favStore.team.league)
            /\ Len(favStore.seen) < MAX_TEAMS) =>
              /\ ~favStore.ret
              /\ favStore.item = favStore.before

\* two teams with the same id in different leagues are both stored, and an
\* add of a present team was turned down
C23_Witness ==
    /\ favStore.pc = "ready"
    /\ HasTeam(FavStoredList, "368", "premier-league")
    /\ HasTeam(FavStoredList, "368", "nba")
    /\ favStore.op = "add" /\ ~favStore.ret /\ ~favStore.alert

\* C30: getFavoriteTeams never returns an empty list; with the store
\* absent, corrupt or empty it returns the four default teams, and
\* addFavoriteTeam with nothing stored saves the defaults plus the team.
C30_DefaultsWhenNothingStored ==
    (favStore.pc = "ready") =>
        LET read == settingsGetFavoriteTeams(favStore.item, favStore.defaults).teams
        IN /\ read # <<>>
           /\ FavStoredList = <<>> => read = SETTINGS_DEFAULT_TEAMS
           /\ (favStore.op = "add" /\ favStore.ret /\ favStore.before.kind = "absent") =>
                 FavStoredList = Append(SETTINGS_DEFAULT_TEAMS, favStore.team)

(***************************************************************************)
(* Claims about the matchup text (checked under SpecMatchup)               *)
(***************************************************************************)

\* C24: on both views a big game is displayed as "Home v. Away" when its
\* league is a soccer league and as "Away @ Home" otherwise.
C24_MatchupByLeague ==
    (matchup.pc = "done") =>
        IF matchup.game.league \in
              {"premier-league", "champions-league", "fa-cup", "league-cup"}
        THEN matchup.text = <<matchup.game.homeTeam, "v.", matchup.game.awayTeam>>
        ELSE matchup.text = <<matchup.game.awayTeam, "@", matchup.game.homeTeam>>

(***************************************************************************)
(* Claims about cached fetches (checked under SpecFetch)                   *)
(***************************************************************************)

\* C25: an entry is created only on a miss after a successful fetch; no
\* entry of the response cache holds a result whose error flag is true, and
\* after a lookup that failed the key has no entry, so the next cycle
\* fetches again.
C25_OnlySuccessesCached ==
    (fetcher.pc = "ready") =>
        /\ \A k \in DOMAIN fetcher.store :
              fetcher.store[k].present => ~fetcher.store[k].data.error
        /\ (fetcher.op = "fetch" /\ fetcher.created) =>
              /\ ~fetcher.hit
              /\ fetcher.outcome = "ok"
        /\ (fetcher.op = "fetch" /\ fetcher.ret.error) =>
              ~fetcher.store[FetchCacheKey(fetcher.fn)].present

\* a lookup failed after the day-old entry of its key had expired
C25_Witness ==
    /\ fetcher.pc = "ready" /\ fetcher.op = "fetch"
    /\ fetcher.advances > 0
    /\ fetcher.outcome \in {"not-ok", "throws", "no-children"}
    /\ ~fetcher.hit
    /\ fetcher.ret.error
    /\ \E k \in DOMAIN fetcher.store : fetcher.store[k].present

(***************************************************************************)
(* Claims about overlapping refresh cycles (checked under SpecCycles)      *)
(***************************************************************************)

CycleFreshMustWatch == getMustWatchGames(NoWatchParty, NullList, cycles.mwItem).ret

CycleFreshSettings == getBigGameSettings(NoWatchParty, NullDoc, cycles.bgsItem).ret

CycleFreshPreseason == getShowPreseason("undefined", "null", cycles.spItem).ret

CyclesStartEmpty ==
    (cycles.pc = "page" /\ cycles.last.op \in {"start", "toggle"}) =>
        /\ cycles.mwCache.isNull
        /\ cycles.bgsCache.isNull
        /\ cycles.spCache = "null"
        /\ cycles.cyc[cycles.last.c].firstFav \in {"none", "store"}

CyclesFirstReadsNotCached ==
    (cycles.pc = "page") =>
        \A c \in CycleIds :
            /\ cycles.cyc[c].firstFav # "cache"
            /\ cycles.cyc[c].firstMW # "cache"
            /\ cycles.cyc[c].firstBGS # "cache"
            /\ cycles.cyc[c].firstSP # "cache"

\* C26: every refresh cycle empties the read caches (favorite teams,
\* must-watch, big-game settings, show-preseason) before it reads settings
\* or favorites, so the first read of each in the cycle is answered from the
\* persistent store and never from a cache.
C26_FirstReadFromStore == CyclesStartEmpty /\ CyclesFirstReadsNotCached

\* C27: outside watch-party mode, when a refresh cycle completes the stored
\* must-watch list holds only ids of games that cycle loaded, whatever its
\* fetches returned and whichever other cycles are in flight.
C27_OnlyLoadedIdsStored ==
    (cycles.pc = "page" /\ cycles.last.op = "finish" /\ ~cycles.mode.present) =>
        \A i \in 1..Len(CycleFreshMustWatch) :
            Includes(cycles.last.ids, CycleFreshMustWatch[i])

\* a cycle completed while another was in flight and removed a stored id
\* that was not among the games it loaded
C27_Witness ==
    /\ cycles.pc = "page" /\ cycles.last.op = "finish" /\ ~cycles.mode.present
    /\ cycles.last.overlapped
    /\ \E i \in 1..Len(cycles.last.before) :
          /\ ~Includes(cycles.last.ids, cycles.last.before[i])
          /\ ~Includes(CycleFreshMustWatch, cycles.last.before[i])

\* C29: between the synchronous steps of overlapping cycles, toggles and
\* settings saves, every non-empty read cache (_mustWatchCache,
\* _bigGameSettingsCache, _showPreseasonCache) equals what a fresh read of
\* the persistent store returns outside watch-party mode, and a toggle
\* reads the stored list and writes it back with the one id flipped.
C29_CachesMatchStore ==
    (cycles.pc = "page") =>
        /\ ~cycles.mwCache.isNull => cycles.mwCache.list = CycleFreshMustWatch
        /\ ~cycles.bgsCache.isNull => cycles.bgsCache.doc = CycleFreshSettings
        /\ cycles.spCache # "null" => cycles.spCache = CycleFreshPreseason
        /\ cycles.last.op = "toggle" =>
              /\ cycles.last.read = cycles.last.fresh
              /\ \A id \in {"t1", "e1", "old"} :
                    Includes(CycleFreshMustWatch, id)
                        <=> (Includes(cycles.last.fresh, id) <=> id # cycles.last.gameId)

\* a cycle completed while another was in flight, after the settings had
\* been migrated and saved and a game auto-marked, with all three caches set
C29_Witness ==
    /\ cycles.pc = "page" /\ cycles.last.op = "finish" /\ cycles.last.overlapped
    /\ ~cycles.mode.present
    /\ ~cycles.mwCache.isNull /\ ~cycles.bgsCache.isNull /\ cycles.spCache # "null"
    /\ cycles.bgsItem.kind = "json"
    /\ cycles.bgsItem.doc.schemaVersion = SETTINGS_SCHEMA_VERSION
    /\ Includes(CycleFreshMustWatch, "e1")
    /\ ~Includes(cycles.last.before, "e1")

(***************************************************************************)
(* Champions League under the default settings (checked under SpecCat)     *)
(***************************************************************************)

====
